---- MODULE Spec2Model ----
(***************************************************************************)
(* Logging pipeline of server/middlewares/logger: the writer hierarchy     *)
(* (AsyncWriter, FileWriter, RotatingFileWriter, MultiWriter), the filters *)
(* (CompositeFilter, MediaFilter, PathFilter), the JSONFormatter, the      *)
(* StandardLogger, the LoggerManager and the global manager of package     *)
(* middlewares.                                                            *)
(*                                                                         *)
(* Each component has its own variables and its own specification          *)
(* (SpecAsync, SpecFile, SpecRotating, SpecMulti, SpecFilter, SpecMedia,   *)
(* SpecPath, SpecLogger, SpecManager, SpecGlobal, SpecJSON) in which its   *)
(* variables move and the other components stay in a fixed initial state;  *)
(* Spec is their product.  SpecFileLocked follows the steps of Write and   *)
(* Close of one FileWriter under its mutex, SpecAsyncLoad an AsyncWriter   *)
(* whose producers never stop, SpecGlobalShared the unsynchronised global  *)
(* manager step by step, SpecLocks the locks of manager, logger and        *)
(* writers, and SpecSize applies formatFileSize.  SpecRotatingFair and     *)
(* SpecAsyncLoadFair add the fairness the Go scheduler gives to runnable   *)
(* goroutines.  Entries are identified by the number of the                *)
(* Write call that submitted them and strings are sequences of characters. *)
(* Writes to an open file are assumed to succeed; the construction of a    *)
(* file writer by the manager, the outcome of the inner writer behind an   *)
(* AsyncWriter, of each member of a MultiWriter and of the writer of a     *)
(* StandardLogger are free choices.                                        *)
(***************************************************************************)
EXTENDS Integers, Sequences, FiniteSets, TLC

\* ------------------------------------------------------------------ bounds
MaxBuf == 2          \* largest bufSize an AsyncWriter is constructed with
MaxWrites == 4       \* Write calls issued on the AsyncWriter
MaxBackups == 3      \* largest maxFiles a FileWriter is constructed with
MaxFileWrites == 4   \* Write calls issued on the FileWriter
MaxDays == 3         \* calendar dates the clock can show
MaxWriters == 2      \* goroutines calling RotatingFileWriter.Write
MaxDateWrites == 3   \* Write calls issued on the RotatingFileWriter
MaxMembers == 3      \* largest number of members of a MultiWriter
MaxMultiWrites == 3  \* Write calls issued on the MultiWriter
MaxRequests == 2     \* distinct requests a filter is asked about
MaxChain == 3        \* largest number of members of a CompositeFilter
MaxPrefixes == 1     \* largest number of exclude / include prefixes a configuration lists
MaxCallers == 1      \* goroutines logging through the StandardLogger, beside the one that sets it up
MaxSwaps == 1        \* SetWriter calls made on the StandardLogger
MaxUpdates == 1      \* UpdateConfig calls made on the LoggerManager
MaxManagers == 3     \* managers created for the global manager
MaxSetFields == 2    \* fields set on a formatted entry, when not all are
MaxRetained == 2     \* largest maxFiles a RotatingFileWriter is constructed with
MaxSizeDigits == 6   \* base-1024 digits of the largest byte count formatted
MaxProducers == 2    \* goroutines that keep calling AsyncWriter.Write
MaxGlobalCallers == 2 \* goroutines calling the functions of the global manager
MaxLockThreads == 2  \* goroutines calling the manager and its logger
MaxTeardowns == 2    \* UpdateConfig, Close and SetWriter calls those goroutines make
MaxFileCallers == 2  \* goroutines calling Write and Close on one FileWriter
MaxLockedWrites == 3 \* Write calls those goroutines issue

VARIABLES
    \* AsyncWriter (writers: type AsyncWriter struct)
    bufSize,         \* cap(w.ch)
    ch,              \* w.ch: the buffered entries, oldest first
    done,            \* w.done is closed
    workerPc,        \* position of the worker goroutine
    workerEntry,     \* the entry the worker received and has not yet written (0: none)
    closePc,         \* position of the caller of Close
    panicked,        \* the process died in a run-time panic
    innerCalls,      \* calls made on w.writer, in order
    results,         \* results[i]: what the i-th Write returned
    writesAtClose,   \* number of Writes that had returned when Close closed w.done (-1: not yet)
    lastWrite,       \* the circumstances of the latest Write
    stall            \* Writes since the worker last made a step

awVars == <<bufSize, ch, done, workerPc, workerEntry, closePc, panicked,
            innerCalls, results, writesAtClose, lastWrite, stall>>

VARIABLES
    \* FileWriter (writers: type FileWriter struct) and its directory
    maxSize,         \* w.maxSize, bytes
    maxFiles,        \* w.maxFiles
    initialSize,     \* info.Size() of filename when the writer was constructed
    currentSize,     \* w.currentSize
    fileOpen,        \* w.file is an open handle (on the path w.filename)
    fileClosed,      \* FileWriter.Close has been called
    fs,              \* fs[0]: content of filename, fs[i]: content of filename.i
    fileWrites,      \* number of Write calls made
    rotations,       \* number of rotate calls made
    rotated,         \* contents moved out of the active file, latest first
    lastFileWrite    \* the circumstances of the latest Write

fwVars == <<maxSize, maxFiles, initialSize, currentSize, fileOpen, fileClosed, fs, fileWrites, rotations,
            rotated, lastFileWrite>>

VARIABLES
    \* RotatingFileWriter (writers: type RotatingFileWriter struct), the clock
    \* and the directory
    today,           \* the date time.Now() shows
    rfCurrentDate,   \* w.currentDate (0: "")
    rfFile,          \* w.file: the handle it refers to (0: nil)
    rfMu,            \* w.mu: the goroutine holding it (0: free)
    rfPc,            \* position of each goroutine in Write
    rfEntry,         \* the entry each goroutine is writing (0: none)
    rfSampled,       \* the date openTodayFile read for each goroutine's Write
    rfHandles,       \* handles opened so far: rfHandles[h] is the file name
    rfOpen,          \* the handles not yet closed
    rfFiles,         \* content of each date file (NoFile: not created)
    rfLog,           \* the appends made, in order
    rfCalls,         \* number of Write calls started
    rfMaxFiles,      \* w.maxFiles
    rfCleaners       \* cleanOldFiles goroutines started and not yet returned

rfVars == <<today, rfCurrentDate, rfFile, rfMu, rfPc, rfEntry, rfSampled,
            rfHandles, rfOpen, rfFiles, rfLog, rfCalls, rfMaxFiles, rfCleaners>>

VARIABLES
    \* MultiWriter (writers: type MultiWriter struct)
    mwWriters,       \* len(w.writers); the members are 1..mwWriters
    mwCalls,         \* the Write calls made on members, in order
    mwReturns        \* what each MultiWriter.Write returned

mwVars == <<mwWriters, mwCalls, mwReturns>>

VARIABLES
    \* CompositeFilter (filters.go: type CompositeFilter struct)
    cfFilters,       \* f.filters: each member is the set of requests it accepts
    cfMode,          \* f.mode
    cfOut            \* the latest ShouldLog call and its result

cfVars == <<cfFilters, cfMode, cfOut>>

VARIABLES
    \* MediaFilter (filters.go: type MediaFilter struct)
    mfOut            \* a request, and the result of MediaFilter.ShouldLog once called

mfVars == <<mfOut>>

VARIABLES
    \* PathFilter (filters.go: type PathFilter struct) and the configuration
    \* the manager built it from
    pfConfigExclude, \* config.AccessLog.ExcludePaths
    pfConfigInclude, \* config.AccessLog.IncludePaths
    excludePaths,    \* f.excludePaths
    includePaths,    \* f.includePaths
    pfOut            \* the latest call of PathFilter.ShouldLog and its result

pfVars == <<pfConfigExclude, pfConfigInclude, excludePaths, includePaths, pfOut>>

VARIABLES
    \* StandardLogger (manager.go: type StandardLogger struct), the goroutines
    \* logging through it and the writers it has been given
    lgEnabled,       \* l.enabled
    lgFilter,        \* l.filter
    lgWriter,        \* l.writer: the writer it refers to
    lgWriters,       \* number of writers made so far (writer 1: NewConsoleWriter())
    lgClosed,        \* the writers whose Close has been invoked
    lgPc,            \* position of each goroutine in its typed operation
    lgCall,          \* the typed operation each goroutine is in (NoCall: none)
    lgHeld,          \* the writer reference each goroutine read in Log (0: none)
    lgLast,          \* the typed operation that returned last
    lgFailed         \* some Write on a writer has returned an error

lgVars == <<lgEnabled, lgFilter, lgWriter, lgWriters, lgClosed, lgPc, lgCall, lgHeld, lgLast,
            lgFailed>>

VARIABLES
    \* LoggerManager (manager.go: type LoggerManager struct), the writers its
    \* loggers are bound to and the goroutines calling it
    mgConfig,        \* m.config
    mgLoggers,       \* m.loggers: the logger of each stream (NoLogger: no entry)
    mgHeap,          \* the writer instances of the current loggers
    mgFails,         \* the NewFileWriter calls that failed in the latest build
    mgGen,           \* number of initializeLoggers runs: loggers of run n carry gen n
    mgMu,            \* m.mu: the operation holding it exclusively ("free": none)
    mgPc,            \* position of the goroutine in UpdateConfig or Close
    mgToClose,       \* the streams the teardown loop has not reached yet
    mgPanicked,      \* a teardown ended in a run-time panic
    mgCommitted,     \* the mapping left by the latest completed build
    mgLastOp,        \* the latest operation that built or closed: "new", "update", "close"
    mgGet            \* the latest GetLogger call and its result

mgVars == <<mgConfig, mgLoggers, mgHeap, mgFails, mgGen, mgMu, mgPc, mgToClose, mgPanicked,
            mgCommitted, mgLastOp, mgGet>>

VARIABLES
    \* the global manager (package middlewares)
    globalLoggerManager, \* the manager it refers to (0: nil)
    glManagers,      \* the managers created so far
    glClosed,        \* CloseLogger has run, and neither InitializeLogger nor
                     \* UpdateLoggerConfig since
    glLast           \* the latest call made on the global manager

glVars == <<globalLoggerManager, glManagers, glClosed, glLast>>

VARIABLES
    \* JSONFormatter (filters.go: type JSONFormatter struct)
    jfEntry,         \* the entry handed to Format
    jfCalled,        \* Format has been called
    jfLine           \* the line Format returned

jfVars == <<jfEntry, jfCalled, jfLine>>

VARIABLES
    \* FileWriter called from several goroutines (writers: FileWriter.mu)
    fcMaxSize,       \* w.maxSize, bytes
    fcMaxFiles,      \* w.maxFiles
    fcMu,            \* w.mu: the goroutine holding it (0: free)
    fcPc,            \* fcPc[t]: position of goroutine t in Write
    fcLine,          \* fcLine[t]: content of the Write goroutine t is in
    fcCurrentSize,   \* w.currentSize
    fcOpen,          \* w.file is an open handle
    fcFs,            \* fcFs[0]: content of filename, fcFs[i]: content of filename.i
    fcIssued,        \* number of Write calls started
    fcAppends,       \* fcAppends[id]: number of WriteString calls that appended entry id
    fcReturns        \* fcReturns[id]: what the Write of entry id returned

fcVars == <<fcMaxSize, fcMaxFiles, fcMu, fcPc, fcLine, fcCurrentSize, fcOpen, fcFs,
            fcIssued, fcAppends, fcReturns>>

VARIABLES
    \* TextFormatter.formatFileSize
    szBytes,         \* the argument bytes, as base-1024 digits, most significant first
    szOut            \* the call made and the text it returned

szVars == <<szBytes, szOut>>

VARIABLES
    \* AsyncWriter with producers that never stop (writers: type AsyncWriter struct)
    alBufSize,       \* cap(w.ch)
    alCh,            \* w.ch: the producers of the buffered entries, oldest first
    alDone,          \* w.done is closed
    alWorkerPc,      \* position of the worker goroutine
    alEntry,         \* the producer of the entry the worker holds (0: none)
    alClosePc        \* position of the caller of Close

alVars == <<alBufSize, alCh, alDone, alWorkerPc, alEntry, alClosePc>>

VARIABLES
    \* the global manager called from several goroutines (var globalLoggerManager)
    gcGlobal,        \* globalLoggerManager: the manager it refers to (0: nil)
    gcManagers,      \* the managers created so far: the Close calls each has had
    gcPc,            \* gcPc[t]: position of goroutine t in the call it is in
    gcOp,            \* gcOp[t]: the function goroutine t is in, or was in last
    gcMade,          \* gcMade[t]: the manager NewLoggerManager returned to t (0: none)
    gcGot,           \* gcGot[t]: what t's latest GetLoggerManager returned (0: nil)
    gcFirstUse,      \* gcFirstUse[t]: that call found globalLoggerManager nil
    gcPanicked       \* the process died in a run-time panic

gcVars == <<gcGlobal, gcManagers, gcPc, gcOp, gcMade, gcGot, gcFirstUse, gcPanicked>>

VARIABLES
    \* the locks of manager, logger and writers (sync.RWMutex, sync.Mutex, w.wg)
    dlAsync,         \* the logger's writer is an AsyncWriter over the FileWriter
    dlMgr,           \* m.mu: the goroutine holding it for writing (0: nobody)
    dlLog,           \* l.mu: the goroutine holding it for writing (0: nobody)
    dlFile,          \* the FileWriter's w.mu: its holder (0: nobody)
    dlCh,            \* number of entries buffered in the AsyncWriter's w.ch
    dlDone,          \* the AsyncWriter's w.done is closed
    dlWorker,        \* position of the AsyncWriter's worker
    dlTeardowns,     \* UpdateConfig, Close and SetWriter calls started
    dlPc,            \* dlPc[t]: position of goroutine t in its call
    dlOp,            \* dlOp[t]: the call goroutine t is in, or was in last
    dlPanicked       \* the process died in a run-time panic

dlVars == <<dlAsync, dlMgr, dlLog, dlFile, dlCh, dlDone, dlWorker, dlTeardowns, dlPc,
            dlOp, dlPanicked>>

awOthers == <<fwVars, rfVars, mwVars, cfVars, mfVars, pfVars, lgVars,
              mgVars, glVars, jfVars, fcVars, szVars, alVars, gcVars, dlVars>>

fwOthers == <<awVars, rfVars, mwVars, cfVars, mfVars, pfVars, lgVars,
              mgVars, glVars, jfVars, fcVars, szVars, alVars, gcVars, dlVars>>

rfOthers == <<awVars, fwVars, mwVars, cfVars, mfVars, pfVars, lgVars,
              mgVars, glVars, jfVars, fcVars, szVars, alVars, gcVars, dlVars>>

mwOthers == <<awVars, fwVars, rfVars, cfVars, mfVars, pfVars, lgVars,
              mgVars, glVars, jfVars, fcVars, szVars, alVars, gcVars, dlVars>>

cfOthers == <<awVars, fwVars, rfVars, mwVars, mfVars, pfVars, lgVars,
              mgVars, glVars, jfVars, fcVars, szVars, alVars, gcVars, dlVars>>

mfOthers == <<awVars, fwVars, rfVars, mwVars, cfVars, pfVars, lgVars,
              mgVars, glVars, jfVars, fcVars, szVars, alVars, gcVars, dlVars>>

pfOthers == <<awVars, fwVars, rfVars, mwVars, cfVars, mfVars, lgVars,
              mgVars, glVars, jfVars, fcVars, szVars, alVars, gcVars, dlVars>>

lgOthers == <<awVars, fwVars, rfVars, mwVars, cfVars, mfVars, pfVars,
              mgVars, glVars, jfVars, fcVars, szVars, alVars, gcVars, dlVars>>

mgOthers == <<awVars, fwVars, rfVars, mwVars, cfVars, mfVars, pfVars,
              lgVars, glVars, jfVars, fcVars, szVars, alVars, gcVars, dlVars>>

glOthers == <<awVars, fwVars, rfVars, mwVars, cfVars, mfVars, pfVars,
              lgVars, mgVars, jfVars, fcVars, szVars, alVars, gcVars, dlVars>>

jfOthers == <<awVars, fwVars, rfVars, mwVars, cfVars, mfVars, pfVars,
              lgVars, mgVars, glVars, fcVars, szVars, alVars, gcVars, dlVars>>

fcOthers == <<awVars, fwVars, rfVars, mwVars, cfVars, mfVars, pfVars,
              lgVars, mgVars, glVars, jfVars, szVars, alVars, gcVars, dlVars>>

szOthers == <<awVars, fwVars, rfVars, mwVars, cfVars, mfVars, pfVars,
              lgVars, mgVars, glVars, jfVars, fcVars, alVars, gcVars, dlVars>>

alOthers == <<awVars, fwVars, rfVars, mwVars, cfVars, mfVars, pfVars,
              lgVars, mgVars, glVars, jfVars, fcVars, szVars, gcVars, dlVars>>

gcOthers == <<awVars, fwVars, rfVars, mwVars, cfVars, mfVars, pfVars,
              lgVars, mgVars, glVars, jfVars, fcVars, szVars, alVars, dlVars>>

dlOthers == <<awVars, fwVars, rfVars, mwVars, cfVars, mfVars, pfVars,
              lgVars, mgVars, glVars, jfVars, fcVars, szVars, alVars, gcVars>>

vars == <<awVars, fwVars, rfVars, mwVars, cfVars, mfVars, pfVars, lgVars,
          mgVars, glVars, jfVars, fcVars, szVars, alVars, gcVars, dlVars>>

\* ------------------------------------------------------------ AsyncWriter

NoWrite == [id |-> 0, lenBefore |-> 0, chBefore |-> <<>>, chAfter |-> <<>>,
            parked |-> FALSE, handoff |-> FALSE, result |-> "none"]

NoStall == [start |-> 0, accepted |-> 0, rejected |-> 0]

\* NewAsyncWriter: make(chan *LogEntry, bufSize), make(chan struct{}), go w.worker()
NewAsyncWriter(n) ==
    /\ bufSize = n
    /\ ch = <<>>
    /\ done = FALSE
    /\ workerPc = "select"
    /\ workerEntry = 0
    /\ closePc = "idle"
    /\ panicked = FALSE
    /\ innerCalls = <<>>
    /\ results = <<>>
    /\ writesAtClose = -1
    /\ lastWrite = NoWrite
    /\ stall = NoStall

AWInit == \E n \in 0..MaxBuf : NewAsyncWriter(n)

AWFixed == NewAsyncWriter(0)

\* A send on w.ch would block: the buffer holds cap(w.ch) entries.
ChanFullOffByOne(q, n) == Len(q) > n

ChanFull(q, n) == Len(q) >= n

\* The worker may be parked in the receive of its outer select (line 239):
\* it is at the select, nothing is buffered and w.done is not closed.
ReceiverMayBeParked ==
    /\ workerPc = "select"
    /\ ch = <<>>
    /\ ~done

WriteRecord(e, after, hand, res) ==
    [id |-> e, lenBefore |-> Len(ch), chBefore |-> ch, chAfter |-> after,
     parked |-> ReceiverMayBeParked, handoff |-> hand, result |-> res]

\* AsyncWriter.Write, case w.ch <- entry with a receiver waiting: the entry
\* goes straight to the worker, whatever the capacity.
AWWriteHandoff ==
    /\ ~panicked
    /\ Len(results) < MaxWrites
    /\ ReceiverMayBeParked
    /\ LET e == Len(results) + 1 IN
        /\ workerEntry' = e
        /\ workerPc' = "write"
        /\ results' = Append(results, "ok")
        /\ lastWrite' = WriteRecord(e, ch, TRUE, "ok")
        /\ stall' = NoStall
    /\ UNCHANGED awOthers
    /\ UNCHANGED <<bufSize, ch, done, closePc, panicked, innerCalls, writesAtClose>>

\* AsyncWriter.Write, case w.ch <- entry with room in the buffer: return nil.
AWWriteEnqueue ==
    /\ ~panicked
    /\ Len(results) < MaxWrites
    /\ ~ChanFull(ch, bufSize)
    /\ LET e == Len(results) + 1 IN
        /\ ch' = Append(ch, e)
        /\ results' = Append(results, "ok")
        /\ lastWrite' = WriteRecord(e, Append(ch, e), FALSE, "ok")
        /\ stall' = [stall EXCEPT !.accepted = @ + 1]
    /\ UNCHANGED awOthers
    /\ UNCHANGED <<bufSize, done, workerPc, workerEntry, closePc, panicked,
                   innerCalls, writesAtClose>>

\* (mutant) the default case taken although the buffer has room
AWWriteFullSpurious ==
    /\ ~panicked
    /\ Len(results) < MaxWrites
    /\ LET e == Len(results) + 1 IN
        /\ results' = Append(results, "full")
        /\ lastWrite' = WriteRecord(e, ch, FALSE, "full")
        /\ stall' = [stall EXCEPT !.rejected = @ + 1]
    /\ UNCHANGED awOthers
    /\ UNCHANGED <<bufSize, ch, done, workerPc, workerEntry, closePc, panicked,
                   innerCalls, writesAtClose>>

\* AsyncWriter.Write, default case: the send would block, return the
\* buffer-full error.
AWWriteFull ==
    /\ ~panicked
    /\ Len(results) < MaxWrites
    /\ ChanFull(ch, bufSize)
    /\ LET e == Len(results) + 1 IN
        /\ results' = Append(results, "full")
        /\ lastWrite' = WriteRecord(e, ch, FALSE, "full")
        /\ stall' = [stall EXCEPT !.rejected = @ + 1]
    /\ UNCHANGED awOthers
    /\ UNCHANGED <<bufSize, ch, done, workerPc, workerEntry, closePc, panicked,
                   innerCalls, writesAtClose>>

AWWrite == AWWriteHandoff \/ AWWriteEnqueue \/ AWWriteFull

InnerWrite(e, err, inDrain) == [op |-> "Write", id |-> e, err |-> err, drain |-> inDrain]

InnerClose == [op |-> "Close", id |-> 0, err |-> FALSE, drain |-> FALSE]

\* worker, outer select, case entry := <-w.ch
WorkerRecv ==
    /\ ~panicked
    /\ workerPc = "select"
    /\ ch # <<>>
    /\ workerEntry' = Head(ch)
    /\ ch' = Tail(ch)
    /\ workerPc' = "write"
    /\ stall' = [NoStall EXCEPT !.start = Len(ch) - 1]
    /\ UNCHANGED awOthers
    /\ UNCHANGED <<bufSize, done, closePc, panicked, innerCalls, results,
                   writesAtClose, lastWrite>>

\* worker, w.writer.Write(entry) of the outer loop; an error is printed only
WorkerWrite ==
    /\ ~panicked
    /\ workerPc = "write"
    /\ \E err \in BOOLEAN :
        innerCalls' = Append(innerCalls, InnerWrite(workerEntry, err, FALSE))
    /\ workerEntry' = 0
    /\ workerPc' = "select"
    /\ stall' = [NoStall EXCEPT !.start = Len(ch)]
    /\ UNCHANGED awOthers
    /\ UNCHANGED <<bufSize, ch, done, closePc, panicked, results, writesAtClose,
                   lastWrite>>

\* (mutant) the worker returns on the shutdown signal without draining
WorkerDoneNoDrain ==
    /\ ~panicked
    /\ workerPc = "select"
    /\ done
    /\ workerPc' = "exited"
    /\ stall' = [NoStall EXCEPT !.start = Len(ch)]
    /\ UNCHANGED awOthers
    /\ UNCHANGED <<bufSize, ch, done, workerEntry, closePc, panicked, innerCalls,
                   results, writesAtClose, lastWrite>>

\* worker, outer select, case <-w.done: enter the drain loop
WorkerDone ==
    /\ ~panicked
    /\ workerPc = "select"
    /\ done
    /\ workerPc' = "drain"
    /\ stall' = [NoStall EXCEPT !.start = Len(ch)]
    /\ UNCHANGED awOthers
    /\ UNCHANGED <<bufSize, ch, done, workerEntry, closePc, panicked, innerCalls,
                   results, writesAtClose, lastWrite>>

\* (mutant) the drain loop receives the newest buffered entry
WorkerDrainRecvNewest ==
    /\ ~panicked
    /\ workerPc = "drain"
    /\ ch # <<>>
    /\ workerEntry' = ch[Len(ch)]
    /\ ch' = SubSeq(ch, 1, Len(ch) - 1)
    /\ workerPc' = "drainWrite"
    /\ stall' = [NoStall EXCEPT !.start = Len(ch) - 1]
    /\ UNCHANGED awOthers
    /\ UNCHANGED <<bufSize, done, closePc, panicked, innerCalls, results,
                   writesAtClose, lastWrite>>

\* worker, drain loop, case entry := <-w.ch
WorkerDrainRecv ==
    /\ ~panicked
    /\ workerPc = "drain"
    /\ ch # <<>>
    /\ workerEntry' = Head(ch)
    /\ ch' = Tail(ch)
    /\ workerPc' = "drainWrite"
    /\ stall' = [NoStall EXCEPT !.start = Len(ch) - 1]
    /\ UNCHANGED awOthers
    /\ UNCHANGED <<bufSize, done, closePc, panicked, innerCalls, results,
                   writesAtClose, lastWrite>>

\* worker, drain loop, w.writer.Write(entry); the error is dropped
WorkerDrainWrite ==
    /\ ~panicked
    /\ workerPc = "drainWrite"
    /\ \E err \in BOOLEAN :
        innerCalls' = Append(innerCalls, InnerWrite(workerEntry, err, TRUE))
    /\ workerEntry' = 0
    /\ workerPc' = "drain"
    /\ stall' = [NoStall EXCEPT !.start = Len(ch)]
    /\ UNCHANGED awOthers
    /\ UNCHANGED <<bufSize, ch, done, closePc, panicked, results, writesAtClose,
                   lastWrite>>

\* worker, drain loop, default case: return (deferred w.wg.Done())
WorkerExit ==
    /\ ~panicked
    /\ workerPc = "drain"
    /\ ch = <<>>
    /\ workerPc' = "exited"
    /\ stall' = NoStall
    /\ UNCHANGED awOthers
    /\ UNCHANGED <<bufSize, ch, done, workerEntry, closePc, panicked, innerCalls,
                   results, writesAtClose, lastWrite>>

\* AsyncWriter.Close, close(w.done)
AWCloseSignal ==
    /\ ~panicked
    /\ closePc = "idle"
    /\ done' = TRUE
    /\ closePc' = "waiting"
    /\ writesAtClose' = Len(results)
    /\ UNCHANGED awOthers
    /\ UNCHANGED <<bufSize, ch, workerPc, workerEntry, panicked, innerCalls,
                   results, lastWrite, stall>>

\* (mutant) Close closes the inner writer without waiting for the worker
AWCloseJoinNoWait ==
    /\ ~panicked
    /\ closePc = "waiting"
    /\ innerCalls' = Append(innerCalls, InnerClose)
    /\ closePc' = "returned"
    /\ UNCHANGED awOthers
    /\ UNCHANGED <<bufSize, ch, done, workerPc, workerEntry, panicked, results,
                   writesAtClose, lastWrite, stall>>

\* AsyncWriter.Close, w.wg.Wait() returns once the worker has exited, then
\* return w.writer.Close()
AWCloseJoin ==
    /\ ~panicked
    /\ closePc = "waiting"
    /\ workerPc = "exited"
    /\ innerCalls' = Append(innerCalls, InnerClose)
    /\ closePc' = "returned"
    /\ UNCHANGED awOthers
    /\ UNCHANGED <<bufSize, ch, done, workerPc, workerEntry, panicked, results,
                   writesAtClose, lastWrite, stall>>

\* AsyncWriter.Close called again: close(w.done) of a closed channel panics
AWCloseAgain ==
    /\ ~panicked
    /\ closePc # "idle"
    /\ panicked' = TRUE
    /\ UNCHANGED awOthers
    /\ UNCHANGED <<bufSize, ch, done, workerPc, workerEntry, closePc, innerCalls,
                   results, writesAtClose, lastWrite, stall>>

AWNext ==
    \/ AWWriteHandoff
    \/ AWWriteEnqueue
    \/ AWWriteFull
    \/ WorkerRecv
    \/ WorkerWrite
    \/ WorkerDone
    \/ WorkerDrainRecv
    \/ WorkerDrainWrite
    \/ WorkerExit
    \/ AWCloseSignal
    \/ AWCloseJoin
    \/ AWCloseAgain

\* ------------------------------------------------- claims on the AsyncWriter

\* Ids of the entries handed to the inner writer so far.
Delivered == {innerCalls[j].id : j \in {k \in 1..Len(innerCalls) : innerCalls[k].op = "Write"}}

Queued == {ch[j] : j \in 1..Len(ch)}

\* A rejected entry is neither buffered, nor held by the worker, nor delivered.
RejectedNeverDelivered ==
    \A i \in 1..Len(results) :
        results[i] = "full" => i \notin Queued /\ i # workerEntry /\ i \notin Delivered

\* A Write can always return at once: one of its select cases is ready.
WriteNeverBlocks ==
    (~panicked /\ Len(results) < MaxWrites) => ENABLED AWWrite

\* C1 (as stated): the queue never holds more than bufSize entries; a Write
\* issued while it holds bufSize entries returns the buffer-full error and
\* leaves the queue unchanged; a rejected entry is never delivered.
C1_FullQueueAlwaysRejects ==
    /\ WriteNeverBlocks
    /\ Len(ch) <= bufSize
    /\ (lastWrite.id # 0 /\ lastWrite.lenBefore = bufSize) =>
          (lastWrite.result = "full" /\ lastWrite.chAfter = lastWrite.chBefore)
    /\ RejectedNeverDelivered

\* C1 (amended): the queue never holds more than bufSize entries; a Write
\* issued while it holds bufSize entries returns the buffer-full error and
\* leaves the queue unchanged, except that with bufSize = 0 a Write issued
\* while the worker waits in its receive hands the entry to the worker and
\* succeeds; a rejected entry is never delivered.
C1_FullQueueRejectsUnlessHandoff ==
    /\ WriteNeverBlocks
    /\ Len(ch) <= bufSize
    /\ (lastWrite.id # 0 /\ lastWrite.lenBefore = bufSize) =>
          /\ lastWrite.chAfter = lastWrite.chBefore
          /\ lastWrite.result \in {"ok", "full"}
          /\ ~lastWrite.parked => lastWrite.result = "full"
          /\ bufSize >= 1 => lastWrite.result = "full"
          /\ lastWrite.result = "ok" =>
                bufSize = 0 /\ lastWrite.handoff /\ lastWrite.parked
    /\ RejectedNeverDelivered

\* A Write was rejected on a full queue of two entries.
C1_Witness ==
    /\ bufSize = 2
    /\ lastWrite.result = "full"
    /\ lastWrite.lenBefore = 2
    /\ Len(ch) = 2

\* C2: while the worker makes no step, no more than bufSize entries are
\* accepted (counting those already buffered), and a Write is rejected only
\* when bufSize entries are buffered: from an empty queue the first bufSize
\* Writes succeed and the next one returns the error.
C2_StalledWorkerAcceptsExactlyN ==
    /\ stall.start + stall.accepted <= bufSize
    /\ stall.rejected > 0 => stall.start + stall.accepted = bufSize
    /\ stall.start + stall.accepted = Len(ch)

\* bufSize = 2, the worker is stuck in the inner Write: two Writes were
\* accepted and the third was rejected.
C2_Witness ==
    /\ bufSize = 2
    /\ workerPc = "write"
    /\ stall = [start |-> 0, accepted |-> 2, rejected |-> 1]
    /\ lastWrite.result = "full"

\* C3: after Close has signalled shutdown, every later Write fails and
\* enqueues nothing.
C3_NoWriteAcceptedAfterClose ==
    \A i \in 1..Len(results) :
        (writesAtClose >= 0 /\ i > writesAtClose) => results[i] = "full"

\* C4: when the inner writer is closed, every entry whose Write succeeded
\* before Close was called has already been passed to the inner Write.
C4_AcceptedBeforeCloseWrittenBeforeInnerClose ==
    \A k \in 1..Len(innerCalls) :
        innerCalls[k].op = "Close" =>
            \A i \in 1..writesAtClose :
                results[i] = "ok" =>
                    \E j \in 1..(k - 1) :
                        innerCalls[j].op = "Write" /\ innerCalls[j].id = i

\* The inner writer was closed after the drain loop wrote an entry that was
\* still queued when the worker saw the shutdown signal.
C4_Witness ==
    /\ closePc = "returned"
    /\ \E j \in 1..Len(innerCalls) :
        /\ innerCalls[j].op = "Write"
        /\ innerCalls[j].drain
        /\ innerCalls[j].id <= writesAtClose

\* The lifecycle state of the AsyncWriter: Running until Close closes w.done,
\* Draining until Close has closed the inner writer, Closed from then on.
Lifecycle ==
    IF closePc = "returned" THEN "Closed"
    ELSE IF done THEN "Draining"
    ELSE "Running"

LifecycleRank ==
    CASE Lifecycle = "Running" -> 0
      [] Lifecycle = "Draining" -> 1
      [] Lifecycle = "Closed" -> 2

InnerCallMade == Len(innerCalls') = Len(innerCalls) + 1

\* C21: the lifecycle only moves forward, one state at a time, Running ->
\* Draining -> Closed; the worker, once it has exited, is not started again;
\* the inner writer is closed exactly by the step that enters Closed, which
\* is taken after the worker has exited; in Closed no call is made on the
\* inner writer.
C21_LifecycleOnlyMovesForward ==
    [][/\ LifecycleRank' \in {LifecycleRank, LifecycleRank + 1}
       /\ workerPc = "exited" => workerPc' = "exited"
       /\ (InnerCallMade /\ innerCalls'[Len(innerCalls')].op = "Close") =>
             /\ workerPc = "exited"
             /\ Lifecycle = "Draining"
             /\ Lifecycle' = "Closed"
       /\ (Lifecycle = "Draining" /\ Lifecycle' = "Closed") =>
             /\ InnerCallMade
             /\ innerCalls'[Len(innerCalls')].op = "Close"
       /\ InnerCallMade => Lifecycle' = Lifecycle \/ Lifecycle' = "Closed"
       /\ Lifecycle = "Closed" => innerCalls' = innerCalls /\ workerPc = "exited"
      ]_vars

\* The writer went through Running, Draining (where the worker wrote) and is
\* Closed: the last call on the inner writer is its Close.
C21_Witness ==
    /\ Lifecycle = "Closed"
    /\ workerPc = "exited"
    /\ Len(innerCalls) >= 3
    /\ innerCalls[Len(innerCalls)].op = "Close"
    /\ innerCalls[Len(innerCalls) - 1].drain

IsInnerWrite(c) == c.op = "Write"

\* The Write calls the worker made on the inner writer, in order.
InnerWrites == SelectSeq(innerCalls, IsInnerWrite)

\* The entries accepted and not yet written, oldest first: the one the worker
\* holds, then the buffered ones.
InFlight == IF workerEntry = 0 THEN ch ELSE <<workerEntry>> \o ch

Increasing(q) == \A j \in 1..(Len(q) - 1) : q[j] < q[j + 1]

\* Accepted entries only reach the inner writer, in increasing order (so each
\* at most once) and none is passed over; the entries in flight are in
\* admission order behind the written ones.
AdmissionOrderKept ==
    /\ \A j \in 1..(Len(InnerWrites) - 1) : InnerWrites[j].id < InnerWrites[j + 1].id
    /\ \A j \in 1..Len(InnerWrites) :
        /\ results[InnerWrites[j].id] = "ok"
        /\ \A i \in 1..(InnerWrites[j].id - 1) :
              results[i] = "ok" => \E k \in 1..(j - 1) : InnerWrites[k].id = i
    /\ Increasing(InFlight)
    /\ \A j \in 1..Len(InnerWrites) : \A k \in 1..Len(InFlight) :
          InnerWrites[j].id < InFlight[k]
    /\ \A i \in 1..Len(results) :
          results[i] = "ok" =>
              \/ \E j \in 1..Len(InnerWrites) : InnerWrites[j].id = i
              \/ \E k \in 1..Len(InFlight) : InFlight[k] = i

\* An inner Write, failed or not, takes the worker back to the select of the
\* loop it is in.
WorkerGoesOnAfterInnerWrite ==
    (InnerCallMade /\ innerCalls'[Len(innerCalls')].op = "Write") =>
        /\ workerPc \in {"write", "drainWrite"}
        /\ workerPc' = (IF workerPc = "write" THEN "select" ELSE "drain")
        /\ innerCalls'[Len(innerCalls')].id = workerEntry
        /\ ch' = ch

\* C22: entries are numbered in the order their Writes were admitted. The
\* inner writer receives accepted entries in admission order, each at most
\* once, in the outer loop and in the drain loop alike, and an inner Write
\* that fails does not stop the worker from going on to the entries behind.
C22_DeliveredInAdmissionOrder ==
    /\ []AdmissionOrderKept
    /\ [][WorkerGoesOnAfterInnerWrite]_vars

\* Three entries were written in order: the first Write failed, the second
\* was made by the outer loop and the third by the drain loop.
C22_Witness ==
    /\ Len(InnerWrites) = 3
    /\ InnerWrites[1].err
    /\ ~InnerWrites[2].drain
    /\ InnerWrites[3].drain
    /\ InnerWrites[3].id = 3

\* ------------------------------ AsyncWriter with producers that never stop
\* The same code as above without the record of what each Write returned, so
\* that the producers can go on calling Write for ever.

Producers == 1..MaxProducers

NewLoadedAsyncWriter(n) ==
    /\ alBufSize = n
    /\ alCh = <<>>
    /\ alDone = FALSE
    /\ alWorkerPc = "select"
    /\ alEntry = 0
    /\ alClosePc = "idle"

ALInit == \E n \in 0..MaxBuf : NewLoadedAsyncWriter(n)

ALFixed == NewLoadedAsyncWriter(0)

\* AsyncWriter.Write by producer p, case w.ch <- entry: into the buffer, or
\* straight to the worker parked in the receive of its outer select.  The
\* default case returns the error and changes nothing.
ALWrite(p) ==
    /\ IF alWorkerPc = "select" /\ alCh = <<>> /\ ~alDone
       THEN /\ alEntry' = p
            /\ alWorkerPc' = "write"
            /\ UNCHANGED alCh
       ELSE /\ ~ChanFull(alCh, alBufSize)
            /\ alCh' = Append(alCh, p)
            /\ UNCHANGED <<alEntry, alWorkerPc>>
    /\ UNCHANGED <<alBufSize, alDone, alClosePc>>
    /\ UNCHANGED alOthers

\* worker, outer select, case entry := <-w.ch
ALWorkerRecv ==
    /\ alWorkerPc = "select"
    /\ alCh # <<>>
    /\ alEntry' = Head(alCh)
    /\ alCh' = Tail(alCh)
    /\ alWorkerPc' = "write"
    /\ UNCHANGED <<alBufSize, alDone, alClosePc>>
    /\ UNCHANGED alOthers

\* worker, w.writer.Write(entry) of the outer loop returns
ALWorkerWrite ==
    /\ alWorkerPc = "write"
    /\ alEntry' = 0
    /\ alWorkerPc' = "select"
    /\ UNCHANGED <<alBufSize, alCh, alDone, alClosePc>>
    /\ UNCHANGED alOthers

\* worker, outer select, case <-w.done: enter the drain loop
ALWorkerDone ==
    /\ alWorkerPc = "select"
    /\ alDone
    /\ alWorkerPc' = "drain"
    /\ UNCHANGED <<alBufSize, alCh, alDone, alEntry, alClosePc>>
    /\ UNCHANGED alOthers

\* worker, drain loop, case entry := <-w.ch
ALWorkerDrainRecv ==
    /\ alWorkerPc = "drain"
    /\ alCh # <<>>
    /\ alEntry' = Head(alCh)
    /\ alCh' = Tail(alCh)
    /\ alWorkerPc' = "drainWrite"
    /\ UNCHANGED <<alBufSize, alDone, alClosePc>>
    /\ UNCHANGED alOthers

\* worker, drain loop, w.writer.Write(entry) returns
ALWorkerDrainWrite ==
    /\ alWorkerPc = "drainWrite"
    /\ alEntry' = 0
    /\ alWorkerPc' = "drain"
    /\ UNCHANGED <<alBufSize, alCh, alDone, alClosePc>>
    /\ UNCHANGED alOthers

\* worker, drain loop, default case: return (deferred w.wg.Done())
ALWorkerExit ==
    /\ alWorkerPc = "drain"
    /\ alCh = <<>>
    /\ alWorkerPc' = "exited"
    /\ UNCHANGED <<alBufSize, alCh, alDone, alEntry, alClosePc>>
    /\ UNCHANGED alOthers

\* AsyncWriter.Close, close(w.done)
ALCloseSignal ==
    /\ alClosePc = "idle"
    /\ alDone' = TRUE
    /\ alClosePc' = "waiting"
    /\ UNCHANGED <<alBufSize, alCh, alWorkerPc, alEntry>>
    /\ UNCHANGED alOthers

\* AsyncWriter.Close, w.wg.Wait() returns, return w.writer.Close()
ALCloseJoin ==
    /\ alClosePc = "waiting"
    /\ alWorkerPc = "exited"
    /\ alClosePc' = "returned"
    /\ UNCHANGED <<alBufSize, alCh, alDone, alWorkerPc, alEntry>>
    /\ UNCHANGED alOthers

ALNext ==
    \/ \E p \in Producers : ALWrite(p)
    \/ ALWorkerRecv
    \/ ALWorkerWrite
    \/ ALWorkerDone
    \/ ALWorkerDrainRecv
    \/ ALWorkerDrainWrite
    \/ ALWorkerExit
    \/ ALCloseSignal
    \/ ALCloseJoin

\* ---- claims about Close under load

\* C28: a Close that has signalled shutdown returns.
C28_CloseEventuallyReturns ==
    (alClosePc = "waiting") ~> (alClosePc = "returned")

\* ------------------------------------------------------------- FileWriter

NoFile == "absent"

Slots == 0..(MaxBackups + 1)

\* Length of entry.Timestamp.Format("2006-01-02 15:04:05")
TimestampLen == 19

RECURSIVE Digits(_)
\* Length of %d of a non-negative integer
Digits(n) == IF n < 10 THEN 1 ELSE 1 + Digits(n \div 10)

\* len(content) of FileWriter.Write:
\* "[%s] %s IP:%s Method:%s Path:%s Status:%d User:%s\n"
ContentLen(e) ==
    Len("[") + TimestampLen + Len("] ") + Len(e.Type)
    + Len(" IP:") + Len(e.IP)
    + Len(" Method:") + Len(e.Method)
    + Len(" Path:") + Len(e.Path)
    + Len(" Status:") + Digits(e.StatusCode)
    + Len(" User:") + Len(e.Username) + 1

\* Entries handed to Write: the zero LogEntry, a LogSystem entry, a LogAccess entry
FileEntries ==
    { [Type |-> "", IP |-> "", Method |-> "", Path |-> "", StatusCode |-> 0,
       Username |-> ""],
      [Type |-> "system", IP |-> "", Method |-> "", Path |-> "", StatusCode |-> 0,
       Username |-> ""],
      [Type |-> "access", IP |-> "10.0.0.1", Method |-> "GET", Path |-> "/d/a.jpg",
       StatusCode |-> 200, Username |-> ""] }

\* maxSize values a FileWriter is constructed with, bytes
MaxSizes == {50, 124}

Line(id, n) == [id |-> id, len |-> n]

RECURSIVE FileSize(_)
FileSize(content) ==
    IF content = <<>> THEN 0 ELSE Head(content).len + FileSize(Tail(content))

NoFileWrite == [id |-> 0, len |-> 0, sizeBefore |-> 0, activeBefore |-> <<>>,
                rotations |-> 0, err |-> FALSE]

\* NewFileWriter: open filename (O_CREATE|O_APPEND), currentSize = info.Size()
NewFileWriter(size, files, existing) ==
    /\ maxSize = size
    /\ maxFiles = files
    /\ fs = [i \in Slots |-> IF i = 0 THEN existing ELSE NoFile]
    /\ initialSize = FileSize(existing)
    /\ currentSize = FileSize(existing)
    /\ fileOpen = TRUE
    /\ fileClosed = FALSE
    /\ fileWrites = 0
    /\ rotations = 0
    /\ rotated = <<>>
    /\ lastFileWrite = NoFileWrite

FWInit ==
    \E size \in MaxSizes, files \in 0..MaxBackups,
       existing \in {<<>>, <<Line(0, 62)>>} :
        NewFileWriter(size, files, existing)

FWFixed == NewFileWriter(50, 0, <<>>)

\* FileWriter.Write, line 108: w.currentSize+int64(len(content)) > w.maxSize
NeedsRotationAtLimit(size, n, limit) == size + n >= limit

NeedsRotation(size, n, limit) == size + n > limit

\* rotate, one pass of the loop body for index i
ShiftStep(f, i, files) ==
    LET g == IF i = files - 1 THEN [f EXCEPT ![i + 1] = NoFile] ELSE f
    IN  IF g[i] # NoFile THEN [g EXCEPT ![i + 1] = g[i], ![i] = NoFile] ELSE g

RECURSIVE ShiftLoop(_, _, _)
\* rotate, for i := w.maxFiles - 1; i > 0; i--
ShiftLoop(f, i, files) ==
    IF i > 0 THEN ShiftLoop(ShiftStep(f, i, files), i - 1, files) ELSE f

\* rotate: shift the backups, rename filename to filename.1, create filename
Rotate(f, files) ==
    LET g == ShiftLoop(f, files - 1, files)
    IN  [g EXCEPT ![1] = g[0], ![0] = <<>>]

\* FileWriter.Write (the whole call, under w.mu)
FWWrite ==
    /\ fileWrites < MaxFileWrites
    /\ \E e \in FileEntries :
        LET n == ContentLen(e)
            id == fileWrites + 1
            need == NeedsRotation(currentSize, n, maxSize)
            g == IF need THEN Rotate(fs, maxFiles) ELSE fs
            open == need \/ fileOpen
            size == IF need THEN 0 ELSE currentSize
        IN  /\ fs' = IF open THEN [g EXCEPT ![0] = Append(@, Line(id, n))] ELSE g
            /\ currentSize' = IF open THEN size + n ELSE size
            /\ fileOpen' = open
            /\ rotations' = IF need THEN rotations + 1 ELSE rotations
            /\ rotated' = IF need THEN <<fs[0]>> \o rotated ELSE rotated
            /\ lastFileWrite' = [id |-> id, len |-> n, sizeBefore |-> currentSize,
                                 activeBefore |-> fs[0],
                                 rotations |-> IF need THEN 1 ELSE 0,
                                 err |-> ~open]
    /\ fileWrites' = fileWrites + 1
    /\ UNCHANGED <<maxSize, maxFiles, initialSize, fileClosed>>
    /\ UNCHANGED fwOthers

\* FileWriter.Close: w.file.Close(); w.file stays non-nil
FWClose ==
    /\ fileOpen
    /\ fileOpen' = FALSE
    /\ fileClosed' = TRUE
    /\ UNCHANGED <<maxSize, maxFiles, initialSize, currentSize, fs, fileWrites, rotations,
                   rotated, lastFileWrite>>
    /\ UNCHANGED fwOthers

FWNext ==
    \/ FWWrite
    \/ FWClose

\* -------------------------------------------------- claims on the FileWriter

\* C5 (general part): a Write rotates exactly when currentSize + len(content)
\* > maxSize, and at most once; after a rotating Write the former active
\* content is at filename.1, the active file holds only the new line and
\* currentSize is that line's length.
RotatesExactlyOnOverflow ==
    lastFileWrite.id # 0 =>
        /\ lastFileWrite.rotations \in {0, 1}
        /\ lastFileWrite.rotations = 1 <=>
              lastFileWrite.sizeBefore + lastFileWrite.len > maxSize
        /\ lastFileWrite.rotations = 1 =>
              /\ fs[1] = lastFileWrite.activeBefore
              /\ fs[0] = <<Line(lastFileWrite.id, lastFileWrite.len)>>
              /\ currentSize = lastFileWrite.len
              /\ ~lastFileWrite.err

\* The writer started on an empty file.
FreshStart == initialSize = 0

\* C5 (as stated): the general part, and with maxSize = 50 the 3rd Write is
\* the first to rotate.
C5_ThirdWriteRotatesAt50 ==
    /\ RotatesExactlyOnOverflow
    /\ (maxSize = 50 /\ FreshStart /\ ~fileClosed) =>
          /\ fileWrites < 3 => rotations = 0
          /\ fileWrites = 3 => rotations = 1

\* C5 (amended): the general part; a rendered line is at least 56 bytes, so
\* with maxSize = 50 every Write rotates, the 1st included; the 3rd Write is
\* the first to rotate when two lines fit and three do not (maxSize = 124,
\* 62-byte lines).
C5_RotatesExactlyOnOverflow ==
    /\ RotatesExactlyOnOverflow
    /\ lastFileWrite.id # 0 => lastFileWrite.len >= 56
    /\ maxSize = 50 => rotations = fileWrites
    /\ (/\ maxSize = 124
        /\ FreshStart
        /\ ~fileClosed
        /\ \A i \in Slots : fs[i] # NoFile => \A k \in 1..Len(fs[i]) : fs[i][k].len = 62) =>
          /\ fileWrites < 3 => rotations = 0
          /\ fileWrites = 3 => rotations = 1 /\ Len(fs[1]) = 2 /\ currentSize = 62

\* maxSize = 124, three 62-byte lines written to a fresh file: the third
\* Write rotated.
C5_Witness ==
    /\ maxSize = 124
    /\ FreshStart
    /\ ~fileClosed
    /\ fileWrites = 3
    /\ rotations = 1
    /\ lastFileWrite.rotations = 1
    /\ lastFileWrite.sizeBefore = 124
    /\ fs[1] # NoFile
    /\ currentSize = 62

\* C6: for every maxFiles (0 and 1 included) backups exist only at
\* filename.1 .. filename.maxFiles and filename.i holds the i-th most
\* recently rotated content.
C6_BackupsWithinMaxFiles ==
    \A i \in Slots \ {0} :
        /\ i > maxFiles => fs[i] = NoFile
        /\ i <= maxFiles =>
              fs[i] = IF i <= Len(rotated) THEN rotated[i] ELSE NoFile

\* C6 restricted to maxFiles >= 1, where the code agrees with it.
C6_HoldsForPositiveMaxFiles == maxFiles >= 1 => C6_BackupsWithinMaxFiles

\* ------------------------------------- FileWriter called from several goroutines

FileCallers == 1..MaxFileCallers

LockedWriteIds == 1..MaxLockedWrites

\* NewFileWriter, seen by the goroutines that share the writer
NewSharedFileWriter(size, files, existing) ==
    /\ fcMaxSize = size
    /\ fcMaxFiles = files
    /\ fcMu = 0
    /\ fcPc = [t \in FileCallers |-> "idle"]
    /\ fcLine = [t \in FileCallers |-> Line(0, 0)]
    /\ fcCurrentSize = FileSize(existing)
    /\ fcOpen = TRUE
    /\ fcFs = [i \in Slots |-> IF i = 0 THEN existing ELSE NoFile]
    /\ fcIssued = 0
    /\ fcAppends = [id \in LockedWriteIds |-> 0]
    /\ fcReturns = [id \in LockedWriteIds |-> "none"]

FCInit ==
    \E size \in MaxSizes, files \in {0, 2}, existing \in {<<>>, <<Line(0, 62)>>} :
        NewSharedFileWriter(size, files, existing)

FCFixed == NewSharedFileWriter(50, 0, <<>>)

\* (mutant) w.mu.Lock() that never waits
FileMutexFreeIgnored(mu) == TRUE

\* w.mu.Lock() can be taken
FileMutexFree(mu) == mu = 0

\* FileWriter.Write: w.mu.Lock() and the Sprintf of content
FCWriteLock(t) ==
    /\ fcPc[t] = "idle"
    /\ fcIssued < MaxLockedWrites
    /\ FileMutexFree(fcMu)
    /\ fcMu' = t
    /\ \E e \in FileEntries :
        fcLine' = [fcLine EXCEPT ![t] = Line(fcIssued + 1, ContentLen(e))]
    /\ fcIssued' = fcIssued + 1
    /\ fcPc' = [fcPc EXCEPT ![t] = "check"]
    /\ UNCHANGED <<fcMaxSize, fcMaxFiles, fcCurrentSize, fcOpen, fcFs, fcAppends,
                   fcReturns>>
    /\ UNCHANGED fcOthers

\* FileWriter.Write: if w.currentSize+int64(len(content)) > w.maxSize
FCCheck(t) ==
    /\ fcPc[t] = "check"
    /\ fcPc' = [fcPc EXCEPT ![t] =
                  IF NeedsRotation(fcCurrentSize, fcLine[t].len, fcMaxSize)
                  THEN "rotateClose" ELSE "append"]
    /\ UNCHANGED <<fcMaxSize, fcMaxFiles, fcMu, fcLine, fcCurrentSize, fcOpen, fcFs,
                   fcIssued, fcAppends, fcReturns>>
    /\ UNCHANGED fcOthers

\* rotate: w.file.Close()
FCRotateClose(t) ==
    /\ fcPc[t] = "rotateClose"
    /\ fcOpen' = FALSE
    /\ fcPc' = [fcPc EXCEPT ![t] = "rotateRename"]
    /\ UNCHANGED <<fcMaxSize, fcMaxFiles, fcMu, fcLine, fcCurrentSize, fcFs, fcIssued,
                   fcAppends, fcReturns>>
    /\ UNCHANGED fcOthers

\* rotate: the loop over the backups and os.Rename(w.filename, filename.1)
FCRotateRename(t) ==
    /\ fcPc[t] = "rotateRename"
    /\ LET g == ShiftLoop(fcFs, fcMaxFiles - 1, fcMaxFiles)
       IN  fcFs' = IF g[0] = NoFile THEN g ELSE [g EXCEPT ![1] = g[0], ![0] = NoFile]
    /\ fcPc' = [fcPc EXCEPT ![t] = "rotateOpen"]
    /\ UNCHANGED <<fcMaxSize, fcMaxFiles, fcMu, fcLine, fcCurrentSize, fcOpen, fcIssued,
                   fcAppends, fcReturns>>
    /\ UNCHANGED fcOthers

\* rotate: os.OpenFile(w.filename, O_CREATE|O_WRONLY|O_APPEND), w.file = file,
\* w.currentSize = 0
FCRotateOpen(t) ==
    /\ fcPc[t] = "rotateOpen"
    /\ fcFs' = IF fcFs[0] = NoFile THEN [fcFs EXCEPT ![0] = <<>>] ELSE fcFs
    /\ fcOpen' = TRUE
    /\ fcCurrentSize' = 0
    /\ fcPc' = [fcPc EXCEPT ![t] = "append"]
    /\ UNCHANGED <<fcMaxSize, fcMaxFiles, fcMu, fcLine, fcIssued, fcAppends, fcReturns>>
    /\ UNCHANGED fcOthers

\* FileWriter.Write: n, err := w.file.WriteString(content); on a closed
\* handle nothing is written and Write returns the error
FCAppend(t) ==
    /\ fcPc[t] = "append"
    /\ IF fcOpen /\ fcFs[0] # NoFile
       THEN /\ fcFs' = [fcFs EXCEPT ![0] = Append(@, fcLine[t])]
            /\ fcAppends' = [fcAppends EXCEPT ![fcLine[t].id] = @ + 1]
            /\ fcPc' = [fcPc EXCEPT ![t] = "account"]
            /\ UNCHANGED fcReturns
       ELSE /\ fcReturns' = [fcReturns EXCEPT ![fcLine[t].id] = "error"]
            /\ fcPc' = [fcPc EXCEPT ![t] = "unlock"]
            /\ UNCHANGED <<fcFs, fcAppends>>
    /\ UNCHANGED <<fcMaxSize, fcMaxFiles, fcMu, fcLine, fcCurrentSize, fcOpen, fcIssued>>
    /\ UNCHANGED fcOthers

\* FileWriter.Write: w.currentSize += int64(n); return w.file.Sync()
FCAccount(t) ==
    /\ fcPc[t] = "account"
    /\ fcCurrentSize' = fcCurrentSize + fcLine[t].len
    /\ fcReturns' = [fcReturns EXCEPT ![fcLine[t].id] = "nil"]
    /\ fcPc' = [fcPc EXCEPT ![t] = "unlock"]
    /\ UNCHANGED <<fcMaxSize, fcMaxFiles, fcMu, fcLine, fcOpen, fcFs, fcIssued,
                   fcAppends>>
    /\ UNCHANGED fcOthers

\* FileWriter.Write: the deferred w.mu.Unlock()
FCUnlock(t) ==
    /\ fcPc[t] = "unlock"
    /\ fcMu' = 0
    /\ fcPc' = [fcPc EXCEPT ![t] = "idle"]
    /\ UNCHANGED <<fcMaxSize, fcMaxFiles, fcLine, fcCurrentSize, fcOpen, fcFs, fcIssued,
                   fcAppends, fcReturns>>
    /\ UNCHANGED fcOthers

\* FileWriter.Close (the whole call: Lock, w.file.Close(), Unlock)
FCClose(t) ==
    /\ fcPc[t] = "idle"
    /\ FileMutexFree(fcMu)
    /\ fcOpen
    /\ fcOpen' = FALSE
    /\ UNCHANGED <<fcMaxSize, fcMaxFiles, fcMu, fcPc, fcLine, fcCurrentSize, fcFs,
                   fcIssued, fcAppends, fcReturns>>
    /\ UNCHANGED fcOthers

FCNext ==
    \E t \in FileCallers :
        \/ FCWriteLock(t)
        \/ FCCheck(t)
        \/ FCRotateClose(t)
        \/ FCRotateRename(t)
        \/ FCRotateOpen(t)
        \/ FCAppend(t)
        \/ FCAccount(t)
        \/ FCUnlock(t)
        \/ FCClose(t)

\* ------------------------------ claims on the FileWriter's exclusive lock

InWrite(t) == fcPc[t] # "idle"

InRotation(t) == fcPc[t] \in {"rotateRename", "rotateOpen"}

\* At most one goroutine is between Lock and Unlock of Write, and it holds
\* w.mu; with none there, currentSize is the byte length of the active file;
\* an entry whose Write returned nil was appended once, one whose Write
\* returned the error not at all, and no entry more than once.
WriteSectionsExclusive ==
    /\ \A t, u \in FileCallers : (InWrite(t) /\ InWrite(u)) => t = u
    /\ \A t \in FileCallers : InWrite(t) => fcMu = t
    /\ (\A t \in FileCallers : ~InWrite(t)) =>
          /\ fcMu = 0
          /\ fcFs[0] # NoFile
          /\ fcCurrentSize = FileSize(fcFs[0])
    /\ \A id \in LockedWriteIds :
          /\ fcAppends[id] <= 1
          /\ fcReturns[id] = "nil" => fcAppends[id] = 1
          /\ fcReturns[id] = "error" => fcAppends[id] = 0

\* A step that appends to a file appends one whole line to the active file,
\* through the open handle, while no goroutine is between rotate's Close and
\* its OpenFile.
AppendsOutsideRotation ==
    (fcAppends' # fcAppends) =>
        /\ fcOpen
        /\ \A t \in FileCallers : ~InRotation(t)
        /\ \E t \in FileCallers :
              /\ fcPc[t] = "append"
              /\ fcFs' = [fcFs EXCEPT ![0] = Append(@, fcLine[t])]

\* C23: for every interleaving of Write and Close calls on one FileWriter,
\* the check-rotate-append sections of two calls never overlap, each entry is
\* appended whole to one file, no append happens between rotate's Close and
\* its OpenFile, and with no Write in progress currentSize is the byte length
\* of the active file.
C23_CheckRotateAppendIsExclusive ==
    /\ []WriteSectionsExclusive
    /\ [][AppendsOutsideRotation]_vars

\* One goroutine is inside rotate, between Close and OpenFile, while the
\* other has a Write to make; an entry was appended before.
C23_Witness ==
    /\ \E t, u \in FileCallers :
          /\ t # u
          /\ InRotation(t)
          /\ fcPc[u] = "idle"
    /\ fcIssued >= 2
    /\ fcIssued < MaxLockedWrites
    /\ \E id \in LockedWriteIds : fcReturns[id] = "nil"

\* ----------------------------------------------------- RotatingFileWriter

Dates == 1..MaxDays

Writers == 1..MaxWriters

\* fmt.Sprintf(w.filenamePattern, today) for a pattern with one %s
DateFileName(d) == <<"access-", d, ".log">>

DateFileNames == {DateFileName(d) : d \in Dates}

\* NewRotatingFileWriter: openTodayFile() on the date of construction, which
\* starts the first cleanOldFiles goroutine
NewRotatingFileWriter(files) ==
    /\ rfMaxFiles = files
    /\ rfCleaners = 1
    /\ today = 1
    /\ rfCurrentDate = 1
    /\ rfFile = 1
    /\ rfMu = 0
    /\ rfPc = [t \in Writers |-> "idle"]
    /\ rfEntry = [t \in Writers |-> 0]
    /\ rfSampled = [t \in Writers |-> 0]
    /\ rfHandles = <<DateFileName(1)>>
    /\ rfOpen = {1}
    /\ rfFiles = [f \in DateFileNames |-> IF f = DateFileName(1) THEN <<>> ELSE NoFile]
    /\ rfLog = <<>>
    /\ rfCalls = 0

RFInit == \E files \in 1..MaxRetained : NewRotatingFileWriter(files)

RFFixed == NewRotatingFileWriter(1)

\* The calendar date changes.
DayChange ==
    /\ \E d \in Dates \ {today} : today' = d
    /\ UNCHANGED <<rfCurrentDate, rfFile, rfMu, rfPc, rfEntry, rfSampled,
                   rfHandles, rfOpen, rfFiles, rfLog, rfCalls, rfMaxFiles,
                   rfCleaners>>
    /\ UNCHANGED rfOthers

\* w.mu.Lock() succeeds only on a free mutex
MutexFreeIgnored(mu) == TRUE

MutexFree(mu) == mu = 0

\* RotatingFileWriter.Write, w.mu.Lock()
RFLock(t) ==
    /\ rfPc[t] = "idle"
    /\ rfCalls < MaxDateWrites
    /\ MutexFree(rfMu)
    /\ rfMu' = t
    /\ rfPc' = [rfPc EXCEPT ![t] = "locked"]
    /\ rfEntry' = [rfEntry EXCEPT ![t] = rfCalls + 1]
    /\ rfCalls' = rfCalls + 1
    /\ UNCHANGED <<today, rfCurrentDate, rfFile, rfSampled, rfHandles, rfOpen,
                   rfFiles, rfLog, rfMaxFiles, rfCleaners>>
    /\ UNCHANGED rfOthers

\* openTodayFile, line 288: w.currentDate == today && w.file != nil
AlreadyOpenIgnoringDate(cur, file, now) == file # 0

AlreadyOpen(cur, file, now) == cur = now /\ file # 0

\* RotatingFileWriter.Write, w.openTodayFile(): keep the open file, or close
\* it, open (creating it if needed) the file of today's date and start a
\* cleanOldFiles goroutine
RFOpenTodayFile(t) ==
    /\ rfPc[t] = "locked"
    /\ rfSampled' = [rfSampled EXCEPT ![t] = today]
    /\ rfPc' = [rfPc EXCEPT ![t] = "opened"]
    /\ IF AlreadyOpen(rfCurrentDate, rfFile, today)
       THEN UNCHANGED <<rfCurrentDate, rfFile, rfHandles, rfOpen, rfFiles, rfCleaners>>
       ELSE LET name == DateFileName(today)
                h == Len(rfHandles) + 1
            IN  /\ rfHandles' = Append(rfHandles, name)
                /\ rfOpen' = (rfOpen \ {rfFile}) \cup {h}
                /\ rfFile' = h
                /\ rfCurrentDate' = today
                /\ rfFiles' = IF rfFiles[name] = NoFile
                              THEN [rfFiles EXCEPT ![name] = <<>>]
                              ELSE rfFiles
                /\ rfCleaners' = rfCleaners + 1
    /\ UNCHANGED <<today, rfMu, rfEntry, rfLog, rfCalls, rfMaxFiles>>
    /\ UNCHANGED rfOthers

\* RotatingFileWriter.Write, w.file.WriteString(content), w.file.Sync() and
\* the deferred w.mu.Unlock()
RFAppend(t) ==
    /\ rfPc[t] = "opened"
    /\ LET name == rfHandles[rfFile] IN
        /\ rfFiles' = [rfFiles EXCEPT ![name] = Append(@, rfEntry[t])]
        /\ rfLog' = Append(rfLog, [id |-> rfEntry[t], date |-> rfSampled[t],
                                   file |-> name, writer |-> t])
    /\ rfMu' = IF rfMu = t THEN 0 ELSE rfMu
    /\ rfPc' = [rfPc EXCEPT ![t] = "idle"]
    /\ rfEntry' = [rfEntry EXCEPT ![t] = 0]
    /\ UNCHANGED <<today, rfCurrentDate, rfFile, rfSampled, rfHandles, rfOpen,
                   rfCalls, rfMaxFiles, rfCleaners>>
    /\ UNCHANGED rfOthers

\* Date files a cleanup removes: cleanOldFiles has an empty body and removes
\* nothing, whatever w.maxFiles is.
FilesToRemove(files, keep) == {}

\* A cleanOldFiles goroutine runs and returns.
CleanOldFiles ==
    /\ rfCleaners > 0
    /\ rfCleaners' = rfCleaners - 1
    /\ rfFiles' = [f \in DateFileNames |->
                    IF f \in FilesToRemove(rfFiles, rfMaxFiles) THEN NoFile ELSE rfFiles[f]]
    /\ UNCHANGED <<today, rfCurrentDate, rfFile, rfMu, rfPc, rfEntry, rfSampled,
                   rfHandles, rfOpen, rfLog, rfCalls, rfMaxFiles>>
    /\ UNCHANGED rfOthers

RFNext ==
    \/ DayChange
    \/ CleanOldFiles
    \/ \E t \in Writers : RFLock(t)
    \/ \E t \in Writers : RFOpenTodayFile(t)
    \/ \E t \in Writers : RFAppend(t)

\* ------------------------------------------ claims on the RotatingFileWriter

\* Ids of the entries appended for date d, in the order of the appends.
RECURSIVE EntriesOfDate(_, _)
EntriesOfDate(log, d) ==
    IF log = <<>> THEN <<>>
    ELSE (IF Head(log).date = d THEN <<Head(log).id>> ELSE <<>>)
         \o EntriesOfDate(Tail(log), d)

\* C7: every entry is appended to the file named by the pattern for the date
\* read at its Write, so each date's file holds exactly that date's entries
\* in order and different dates give different files; at most one handle is
\* open; a date's file is opened once per switch to that date.
C7_EntriesLandInTheFileOfTheirDate ==
    /\ \A k \in 1..Len(rfLog) : rfLog[k].file = DateFileName(rfLog[k].date)
    /\ \A d \in Dates :
        /\ rfFiles[DateFileName(d)] # NoFile =>
              rfFiles[DateFileName(d)] = EntriesOfDate(rfLog, d)
        /\ rfFiles[DateFileName(d)] = NoFile => EntriesOfDate(rfLog, d) = <<>>
    /\ \A d1, d2 \in Dates : d1 # d2 => DateFileName(d1) # DateFileName(d2)
    /\ Cardinality(rfOpen) <= 1
    /\ rfOpen \subseteq {rfFile}
    /\ \A k \in 1..(Len(rfHandles) - 1) : rfHandles[k] # rfHandles[k + 1]

\* Two entries were written on one date and a third on another date: two
\* files, the first holding two entries.
C7_Witness ==
    \E d1, d2 \in Dates :
        /\ d1 # d2
        /\ rfFiles[DateFileName(d1)] # NoFile
        /\ rfFiles[DateFileName(d2)] # NoFile
        /\ Len(rfFiles[DateFileName(d1)]) = 2
        /\ Len(rfFiles[DateFileName(d2)]) = 1
        /\ \E k \in 1..Len(rfLog) : rfLog[k].writer = 2

\* The date files that exist.
RetainedFiles == {f \in DateFileNames : rfFiles[f] # NoFile}

\* C24: once more date files exist than w.maxFiles, the cleanups started by
\* the switches to a new date bring their number back to w.maxFiles at most.
C24_RetentionEventuallyEnforced ==
    (Cardinality(RetainedFiles) > rfMaxFiles) ~> (Cardinality(RetainedFiles) <= rfMaxFiles)

\* ------------------------------------------------------------ MultiWriter

\* NewMultiWriter(writers...)
NewMultiWriter(n) ==
    /\ mwWriters = n
    /\ mwCalls = <<>>
    /\ mwReturns = <<>>

MWInit == \E n \in 0..MaxMembers : NewMultiWriter(n)

MWFixed == NewMultiWriter(0)

MemberCall(c, i, err) == [call |-> c, member |-> i, err |-> err]

RECURSIVE WriteLoopStopOnError(_, _, _, _)
\* (mutant) the loop returns at the first member that fails
WriteLoopStopOnError(i, n, failing, c) ==
    IF i > n THEN <<>>
    ELSE IF i \in failing THEN <<MemberCall(c, i, TRUE)>>
    ELSE <<MemberCall(c, i, FALSE)>> \o WriteLoopStopOnError(i + 1, n, failing, c)

RECURSIVE WriteLoop(_, _, _, _)
\* MultiWriter.Write, for _, writer := range w.writers from member i on: the
\* calls made when the members in `failing` return an error (printed only)
WriteLoop(i, n, failing, c) ==
    IF i > n THEN <<>>
    ELSE <<MemberCall(c, i, i \in failing)>> \o WriteLoop(i + 1, n, failing, c)

\* MultiWriter.Write, line 188: return nil
MultiWriteReturn(n, failing) == "nil"

\* MultiWriter.Write
MWWrite ==
    /\ Len(mwReturns) < MaxMultiWrites
    /\ \E failing \in SUBSET (1..mwWriters) :
        /\ mwCalls' = mwCalls \o WriteLoop(1, mwWriters, failing, Len(mwReturns) + 1)
        /\ mwReturns' = Append(mwReturns, MultiWriteReturn(mwWriters, failing))
    /\ UNCHANGED mwWriters
    /\ UNCHANGED mwOthers

MWNext == MWWrite

\* ------------------------------------------------- claims on the MultiWriter

\* The calls made on members by the c-th MultiWriter.Write.
CallsOf(c) == SelectSeq(mwCalls, LAMBDA x : x.call = c)

\* C8: every MultiWriter.Write calls Write exactly once on every member, in
\* list order, whichever members fail, and returns nil.
C8_EveryMemberWrittenOnceInOrder ==
    /\ \A c \in 1..Len(mwReturns) :
        /\ mwReturns[c] = "nil"
        /\ Len(CallsOf(c)) = mwWriters
        /\ \A i \in 1..mwWriters : CallsOf(c)[i].member = i
    /\ \A k \in 1..Len(mwCalls) : mwCalls[k].call \in 1..Len(mwReturns)

\* A Write on three members whose first and second members failed still
\* reached the third.
C8_Witness ==
    /\ mwWriters = 3
    /\ Len(mwReturns) >= 1
    /\ CallsOf(1)[1].err
    /\ CallsOf(1)[2].err
    /\ ~CallsOf(1)[3].err
    /\ mwReturns[1] = "nil"

\* -------------------------------------------------------- CompositeFilter

FilterModeAnd == 0

FilterModeOr == 1

\* f.mode is an int: the two declared modes and one value outside them
FilterModes == {FilterModeAnd, FilterModeOr, FilterModeOr + 1}

Requests == 1..MaxRequests

\* filter.ShouldLog(c, logType) of a member: members are pure predicates
MemberShouldLog(member, request) == request \in member

Verdict(result, consulted) == [result |-> result, consulted |-> consulted]

RECURSIVE AndLoopNoShortCircuit(_, _, _)
\* (mutant) the AND loop asks every member and keeps the last answer
AndLoopNoShortCircuit(filters, request, i) ==
    IF i > Len(filters) THEN Verdict(TRUE, i - 1)
    ELSE IF i = Len(filters) /\ ~MemberShouldLog(filters[i], request)
         THEN Verdict(FALSE, i)
         ELSE AndLoopNoShortCircuit(filters, request, i + 1)

RECURSIVE AndLoop(_, _, _)
\* case FilterModeAnd: return false at the first member that rejects
AndLoop(filters, request, i) ==
    IF i > Len(filters) THEN Verdict(TRUE, i - 1)
    ELSE IF ~MemberShouldLog(filters[i], request) THEN Verdict(FALSE, i)
    ELSE AndLoop(filters, request, i + 1)

RECURSIVE OrLoop(_, _, _)
\* case FilterModeOr: return true at the first member that accepts
OrLoop(filters, request, i) ==
    IF i > Len(filters) THEN Verdict(FALSE, i - 1)
    ELSE IF MemberShouldLog(filters[i], request) THEN Verdict(TRUE, i)
    ELSE OrLoop(filters, request, i + 1)

\* (mutant) ShouldLog without the len(f.filters) == 0 test
CompositeShouldLogNoEmptyTest(filters, mode, request) ==
    IF mode = FilterModeAnd THEN AndLoop(filters, request, 1)
    ELSE IF mode = FilterModeOr THEN OrLoop(filters, request, 1)
    ELSE Verdict(TRUE, 0)

\* CompositeFilter.ShouldLog: the result and the number of members asked
CompositeShouldLog(filters, mode, request) ==
    IF Len(filters) = 0 THEN Verdict(TRUE, 0)
    ELSE IF mode = FilterModeAnd THEN AndLoop(filters, request, 1)
    ELSE IF mode = FilterModeOr THEN OrLoop(filters, request, 1)
    ELSE Verdict(TRUE, 0)

NoVerdict == [called |-> FALSE, filters |-> <<>>, mode |-> FilterModeAnd,
              request |-> 0, result |-> TRUE, consulted |-> 0]

\* NewCompositeFilter(mode)
NewCompositeFilter(mode) ==
    /\ cfFilters = <<>>
    /\ cfMode = mode
    /\ cfOut = NoVerdict

CFInit == \E mode \in FilterModes : NewCompositeFilter(mode)

CFFixed == NewCompositeFilter(FilterModeAnd)

\* CompositeFilter.AddFilter
AddFilter ==
    /\ Len(cfFilters) < MaxChain
    /\ \E member \in SUBSET Requests : cfFilters' = Append(cfFilters, member)
    /\ UNCHANGED <<cfMode, cfOut>>
    /\ UNCHANGED cfOthers

\* CompositeFilter.ShouldLog
ShouldLog ==
    /\ \E request \in Requests :
        LET v == CompositeShouldLog(cfFilters, cfMode, request)
        IN  cfOut' = [called |-> TRUE, filters |-> cfFilters, mode |-> cfMode,
                      request |-> request, result |-> v.result,
                      consulted |-> v.consulted]
    /\ UNCHANGED <<cfFilters, cfMode>>
    /\ UNCHANGED cfOthers

CFNext ==
    \/ AddFilter
    \/ ShouldLog

\* --------------------------------------------- claims on the CompositeFilter

\* Member i of the chain of the latest call accepts the request of that call.
Accepts(i) == cfOut.request \in cfOut.filters[i]

Chain == 1..Len(cfOut.filters)

\* C9: in AND mode ShouldLog returns the conjunction of the members' results
\* (true for the empty chain), asking the members in order up to and
\* including the first that returns false.
C9_AndModeIsConjunction ==
    (cfOut.called /\ cfOut.mode = FilterModeAnd) =>
        /\ cfOut.result = (\A i \in Chain : Accepts(i))
        /\ cfOut.filters = <<>> => cfOut.result
        /\ \A i \in Chain : i < cfOut.consulted => Accepts(i)
        /\ cfOut.result => cfOut.consulted = Len(cfOut.filters)
        /\ ~cfOut.result => cfOut.consulted \in Chain /\ ~Accepts(cfOut.consulted)

\* An AND chain of three members stopped at its second member, which
\* rejected; the third was not asked.
C9_Witness ==
    /\ cfOut.called
    /\ cfOut.mode = FilterModeAnd
    /\ Len(cfOut.filters) = 3
    /\ ~cfOut.result
    /\ cfOut.consulted = 2
    /\ Accepts(3)

\* C10: in OR mode ShouldLog returns the disjunction of the members' results,
\* asking the members in order up to and including the first that returns
\* true; for the empty chain it returns true, as in AND mode.
C10_OrModeIsDisjunctionEmptyPasses ==
    (cfOut.called /\ cfOut.mode = FilterModeOr) =>
        /\ cfOut.filters # <<>> => cfOut.result = (\E i \in Chain : Accepts(i))
        /\ cfOut.filters = <<>> => cfOut.result /\ cfOut.consulted = 0
        /\ \A i \in Chain : i < cfOut.consulted => ~Accepts(i)
        /\ (cfOut.result /\ cfOut.filters # <<>>) =>
              cfOut.consulted \in Chain /\ Accepts(cfOut.consulted)
        /\ ~cfOut.result => cfOut.consulted = Len(cfOut.filters)

\* An OR chain of three members stopped at its second member, which
\* accepted, after the first rejected; the third was not asked.
C10_Witness ==
    /\ cfOut.called
    /\ cfOut.mode = FilterModeOr
    /\ Len(cfOut.filters) = 3
    /\ cfOut.result
    /\ cfOut.consulted = 2
    /\ ~Accepts(1)
    /\ ~Accepts(3)

\* An empty OR chain was asked and passed.
C10_EmptyChainAsked ==
    cfOut.called /\ cfOut.mode = FilterModeOr /\ cfOut.filters = <<>> /\ cfOut.result

\* ---------------------------------------------------------------- strings
\* A Go string is modelled as the sequence of its characters.

UpperLetters ==
    <<"A", "B", "C", "D", "E", "F", "G", "H", "I", "J", "K", "L", "M",
      "N", "O", "P", "Q", "R", "S", "T", "U", "V", "W", "X", "Y", "Z">>

LowerLetters ==
    <<"a", "b", "c", "d", "e", "f", "g", "h", "i", "j", "k", "l", "m",
      "n", "o", "p", "q", "r", "s", "t", "u", "v", "w", "x", "y", "z">>

\* strings.ToLower, one character
LowerChar(c) ==
    IF \E i \in 1..Len(UpperLetters) : UpperLetters[i] = c
    THEN LowerLetters[CHOOSE i \in 1..Len(UpperLetters) : UpperLetters[i] = c]
    ELSE c

\* strings.ToLower
ToLower(s) == [i \in 1..Len(s) |-> LowerChar(s[i])]

\* strings.HasPrefix
HasPrefix(s, prefix) ==
    Len(s) >= Len(prefix) /\ SubSeq(s, 1, Len(prefix)) = prefix

\* strings.HasSuffix
HasSuffix(s, suffix) ==
    Len(s) >= Len(suffix) /\ SubSeq(s, Len(s) - Len(suffix) + 1, Len(s)) = suffix

\* strings.Contains
Contains(s, substr) ==
    \E i \in 0..(Len(s) - Len(substr)) : SubSeq(s, i + 1, i + Len(substr)) = substr

\* ------------------------------------------------------------ MediaFilter
\* type LogType
TypeAccess == "access"

TypeMedia == "media"

TypeError == "error"

TypeSystem == "system"

LogTypes == {TypeAccess, TypeMedia, TypeError, TypeSystem}

\* NewMediaFilter: f.imageFormats
imageFormats ==
    <<<<".", "j", "p", "g">>, <<".", "j", "p", "e", "g">>,
      <<".", "p", "n", "g">>, <<".", "g", "i", "f">>, <<".", "b", "m", "p">>,
      <<".", "w", "e", "b", "p">>, <<".", "s", "v", "g">>,
      <<".", "i", "c", "o">>, <<".", "t", "i", "f", "f">>,
      <<".", "t", "i", "f">>, <<".", "p", "s", "d">>, <<".", "r", "a", "w">>,
      <<".", "c", "r", "2">>, <<".", "n", "e", "f">>, <<".", "o", "r", "f">>,
      <<".", "s", "r", "2">>, <<".", "h", "e", "i", "c">>,
      <<".", "h", "e", "i", "f">>, <<".", "a", "v", "i", "f">>,
      <<".", "j", "x", "l">>>>

\* NewMediaFilter: f.videoFormats
videoFormats ==
    <<<<".", "m", "p", "4">>, <<".", "a", "v", "i">>, <<".", "m", "o", "v">>,
      <<".", "w", "m", "v">>, <<".", "f", "l", "v">>, <<".", "m", "k", "v">>,
      <<".", "w", "e", "b", "m">>, <<".", "m", "4", "v">>,
      <<".", "3", "g", "p">>, <<".", "f", "4", "v">>, <<".", "a", "s", "f">>,
      <<".", "r", "m">>, <<".", "r", "m", "v", "b">>, <<".", "v", "o", "b">>,
      <<".", "t", "s">>, <<".", "m", "t", "s">>, <<".", "m", "2", "t", "s">>,
      <<".", "d", "i", "v", "x">>, <<".", "x", "v", "i", "d">>,
      <<".", "o", "g", "v">>>>

\* the request paths the filter is asked about: prefix, stem, extension, tail
PathPrefixes == {<<"/", "d", "/">>, <<"/", "p", "/">>, <<"/", "a", "d", "/">>, <<"/", "x", "/">>, <<"/", "D", "/">>, <<"/">>}

PathStems == {<<"p", "h", "o", "t", "o">>, <<"d", "o", "c">>}

PathExtensions == {<<".", "J", "P", "G">>, <<".", "j", "p", "g">>, <<".", "p", "d", "f">>, <<".", "M", "p", "4">>, <<".", "t", "s">>, <<>>}

PathTails == {<<>>, <<"?">>, <<"&", "w">>, <<"x">>, <<"/", "b">>}

MediaPaths ==
    {p \o s \o e \o t : p \in PathPrefixes, s \in PathStems,
                        e \in PathExtensions, t \in PathTails}

\* isDrivePath, tested on the path as given
IsDrivePath(path) ==
    \/ HasPrefix(path, <<"/", "d", "/">>)
    \/ HasPrefix(path, <<"/", "p", "/">>)
    \/ HasPrefix(path, <<"/", "a", "d", "/">>)

\* the test made in both format loops
FormatMatches(pathLower, format) ==
    \/ HasSuffix(pathLower, format)
    \/ Contains(pathLower, format \o <<"?">>)
    \/ Contains(pathLower, format \o <<"&">>)

\* one format loop: returns true at the first format that matches
FormatLoop(pathLower, formats) ==
    \E k \in 1..Len(formats) : FormatMatches(pathLower, formats[k])

\* (mutant) the formats are compared with the path as given, not lower-cased
MediaShouldLogCaseSensitive(path, logType) ==
    IF logType # TypeMedia THEN TRUE
    ELSE IF ~IsDrivePath(path) THEN FALSE
    ELSE FormatLoop(path, imageFormats) \/ FormatLoop(path, videoFormats)

\* MediaFilter.ShouldLog
MediaShouldLog(path, logType) ==
    IF logType # TypeMedia THEN TRUE
    ELSE IF ~IsDrivePath(path) THEN FALSE
    ELSE LET pathLower == ToLower(path)
         IN  FormatLoop(pathLower, imageFormats) \/ FormatLoop(pathLower, videoFormats)

\* a request for path on the stream logType, not yet put to the filter
MediaRequest(path, logType) ==
    mfOut = [called |-> FALSE, path |-> path, logType |-> logType, result |-> TRUE]

MFInit == \E path \in MediaPaths, logType \in LogTypes : MediaRequest(path, logType)

MFFixed == MediaRequest(<<"/">>, TypeAccess)

\* the call of MediaFilter.ShouldLog(c, logType) with c.Request.URL.Path = path
MediaFilterShouldLog ==
    /\ ~mfOut.called
    /\ mfOut' = [mfOut EXCEPT !.called = TRUE,
                              !.result = MediaShouldLog(mfOut.path, mfOut.logType)]
    /\ UNCHANGED mfOthers

MFNext == MediaFilterShouldLog

\* ---- claims about MediaFilter

\* s begins with the characters of p
StartsWith(s, p) ==
    Len(p) <= Len(s) /\ \A i \in 1..Len(p) : s[i] = p[i]

\* the media recognition rule's allow-list: images, then videos
AllowedExtensions ==
    {<<"j", "p", "g">>, <<"j", "p", "e", "g">>, <<"p", "n", "g">>,
     <<"g", "i", "f">>, <<"b", "m", "p">>, <<"w", "e", "b", "p">>,
     <<"s", "v", "g">>, <<"i", "c", "o">>, <<"t", "i", "f", "f">>,
     <<"t", "i", "f">>, <<"p", "s", "d">>, <<"r", "a", "w">>,
     <<"c", "r", "2">>, <<"n", "e", "f">>, <<"o", "r", "f">>,
     <<"s", "r", "2">>, <<"h", "e", "i", "c">>, <<"h", "e", "i", "f">>,
     <<"a", "v", "i", "f">>, <<"j", "x", "l">>, <<"m", "p", "4">>,
     <<"a", "v", "i">>, <<"m", "o", "v">>, <<"w", "m", "v">>,
     <<"f", "l", "v">>, <<"m", "k", "v">>, <<"w", "e", "b", "m">>,
     <<"m", "4", "v">>, <<"3", "g", "p">>, <<"f", "4", "v">>,
     <<"a", "s", "f">>, <<"r", "m">>, <<"r", "m", "v", "b">>,
     <<"v", "o", "b">>, <<"t", "s">>, <<"m", "t", "s">>,
     <<"m", "2", "t", "s">>, <<"d", "i", "v", "x">>, <<"x", "v", "i", "d">>,
     <<"o", "g", "v">>}

\* some allow-listed extension, compared without regard to case, stands at
\* the end of the path or right before a '?' or a '&'
ExtensionRecognised(path) ==
    \E ext \in AllowedExtensions, i \in 1..Len(path) :
        /\ i + Len(ext) <= Len(path)
        /\ path[i] = "."
        /\ \A j \in 1..Len(ext) : LowerChar(path[i + j]) = ext[j]
        /\ \/ i + Len(ext) = Len(path)
           \/ path[i + Len(ext) + 1] \in {"?", "&"}

DrivePrefixed(path) ==
    \/ StartsWith(path, <<"/", "d", "/">>)
    \/ StartsWith(path, <<"/", "p", "/">>)
    \/ StartsWith(path, <<"/", "a", "d", "/">>)

PhotoJPG == <<"/", "d", "/", "p", "h", "o", "t", "o", ".", "J", "P", "G">>

PhotoOutsideDrive == <<"/", "x", "/", "p", "h", "o", "t", "o", ".", "j", "p", "g">>

DocPdf == <<"/", "d", "/", "d", "o", "c", ".", "p", "d", "f">>

\* C11 as stated: ShouldLog is true iff the stream type is media, the path has
\* a drive prefix and carries an allow-listed extension; false otherwise.
C11_TrueIffMediaDriveAndExtension ==
    mfOut.called =>
        (mfOut.result <=>
            /\ mfOut.logType = TypeMedia
            /\ DrivePrefixed(mfOut.path)
            /\ ExtensionRecognised(mfOut.path))

\* C11 amended: for the media stream ShouldLog is true iff the path has a
\* drive prefix and carries an allow-listed extension (/d/photo.JPG true,
\* /x/photo.jpg false, /d/doc.pdf false); for every other stream it is true.
C11_MediaGatedOtherStreamsPass ==
    mfOut.called =>
        /\ mfOut.logType # TypeMedia => mfOut.result
        /\ mfOut.logType = TypeMedia =>
            /\ mfOut.result <=>
                (DrivePrefixed(mfOut.path) /\ ExtensionRecognised(mfOut.path))
            /\ mfOut.path = PhotoJPG => mfOut.result
            /\ mfOut.path \in {PhotoOutsideDrive, DocPdf} => ~mfOut.result

C11_Witness ==
    /\ mfOut.called
    /\ mfOut.logType = TypeMedia
    /\ mfOut.path = PhotoJPG
    /\ mfOut.result

\* ------------------------------------------------------------- PathFilter
\* the prefixes a configuration lists
ConfigPrefixes == {<<"/", "p", "i", "n", "g">>, <<"/", "a", "p", "i">>, <<"/", "d", "/">>}

\* the request paths the filter is asked about
RequestPaths ==
    {<<"/", "p", "i", "n", "g">>,
     <<"/", "p", "i", "n", "g", "/", "h", "e", "a", "l", "t", "h">>,
     <<"/", "p", "i", "n", "g", "b", "a", "c", "k">>,
     <<"/", "p", "i", "n">>,
     <<"/", "h", "e", "a", "l", "t", "h">>,
     <<"/", "f", "a", "v", "i", "c", "o", "n", ".", "i", "c", "o">>,
     <<"/", "a", "p", "i", "/", "u", "s", "e", "r", "s">>,
     <<"/", "d", "/", "a">>,
     <<"/">>}

\* the lists of at most n prefixes
RECURSIVE PrefixLists(_)
PrefixLists(n) ==
    IF n = 0 THEN {<<>>}
    ELSE PrefixLists(n - 1) \cup
         {Append(l, p) : l \in {x \in PrefixLists(n - 1) : Len(x) = n - 1},
                         p \in ConfigPrefixes}

\* NewPathFilter: f.excludePaths
DefaultExcludePaths == <<<<"/", "p", "i", "n", "g">>, <<"/", "h", "e", "a", "l", "t", "h">>, <<"/", "f", "a", "v", "i", "c", "o", "n", ".", "i", "c", "o">>>>

\* the exclusion loop: returns false at the first prefix of the path
ExcludeLoop(path, excludes) ==
    \E k \in 1..Len(excludes) : HasPrefix(path, excludes[k])

\* the inclusion loop: returns true at the first prefix of the path
IncludeLoop(path, includes) ==
    \E k \in 1..Len(includes) : HasPrefix(path, includes[k])

\* (mutant) the include prefixes are looked at before the exclude prefixes
PathShouldLogIncludeFirst(path, excludes, includes) ==
    IF Len(includes) > 0 /\ IncludeLoop(path, includes) THEN TRUE
    ELSE IF ExcludeLoop(path, excludes) THEN FALSE
    ELSE Len(includes) = 0

\* PathFilter.ShouldLog
PathShouldLog(path, excludes, includes) ==
    IF ExcludeLoop(path, excludes) THEN FALSE
    ELSE IF Len(includes) > 0 THEN IncludeLoop(path, includes)
    ELSE TRUE

NoPathVerdict == [called |-> FALSE, path |-> <<>>, result |-> TRUE]

\* createAccessFilter, the path filter: NewPathFilter, then AddExcludePath
\* and AddIncludePath for each configured prefix
createAccessFilter(configExclude, configInclude) ==
    /\ pfConfigExclude = configExclude
    /\ pfConfigInclude = configInclude
    /\ excludePaths = DefaultExcludePaths \o configExclude
    /\ includePaths = configInclude
    /\ pfOut = NoPathVerdict

PFInit ==
    \E configExclude \in PrefixLists(MaxPrefixes), configInclude \in PrefixLists(MaxPrefixes) :
        createAccessFilter(configExclude, configInclude)

PFFixed == createAccessFilter(<<>>, <<>>)

\* a call of PathFilter.ShouldLog(c, logType) with c.Request.URL.Path = path
PathFilterShouldLog ==
    /\ \E path \in RequestPaths :
        pfOut' = [called |-> TRUE, path |-> path,
                  result |-> PathShouldLog(path, excludePaths, includePaths)]
    /\ UNCHANGED <<pfConfigExclude, pfConfigInclude, excludePaths, includePaths>>
    /\ UNCHANGED pfOthers

PFNext == PathFilterShouldLog

\* ---- claims about PathFilter

\* the path starts with one of the prefixes of the list
StartsWithOneOf(path, prefixes) ==
    \E k \in 1..Len(prefixes) : StartsWith(path, prefixes[k])

\* the rejection rule over a list of exclude-prefixes and of include-prefixes
Rejects(path, excludes, includes) ==
    \/ StartsWithOneOf(path, excludes)
    \/ includes # <<>> /\ ~StartsWithOneOf(path, includes)

Ping == <<"/", "p", "i", "n", "g">>

PingHealth == <<"/", "p", "i", "n", "g", "/", "h", "e", "a", "l", "t", "h">>

Pingback == <<"/", "p", "i", "n", "g", "b", "a", "c", "k">>

\* C12 as stated: the filter the manager builds rejects a path iff it starts
\* with a configured exclude-prefix, or include-prefixes are configured and
\* the path starts with none of them.
C12_RejectsIffConfiguredPrefix ==
    pfOut.called =>
        (~pfOut.result <=> Rejects(pfOut.path, pfConfigExclude, pfConfigInclude))

\* C12 amended: the exclude-prefixes are the three built-in ones (/ping,
\* /health, /favicon.ico) together with the configured ones; exclusion takes
\* precedence over inclusion and matching is by prefix (with /ping excluded,
\* /ping/health and /pingback are rejected).
C12_RejectsIffBuiltInOrConfiguredPrefix ==
    pfOut.called =>
        /\ ~pfOut.result <=>
              Rejects(pfOut.path, DefaultExcludePaths \o pfConfigExclude, pfConfigInclude)
        /\ StartsWithOneOf(pfOut.path, pfConfigExclude) => ~pfOut.result
        /\ pfOut.path \in {PingHealth, Pingback} => ~pfOut.result

C12_Witness ==
    /\ pfOut.called
    /\ pfConfigExclude = <<Ping>>
    /\ pfConfigInclude = <<Ping>>
    /\ pfOut.path = Pingback
    /\ ~pfOut.result

\* --------------------------------------------------------- StandardLogger
\* the goroutines that log through one StandardLogger
LogCallers == 1..MaxCallers

\* the typed log operations
TypedOps == {"LogAccess", "LogMedia", "LogError", "LogSystem"}

\* the Type each typed operation gives the entry it builds
StreamOf(op) ==
    CASE op = "LogAccess" -> TypeAccess
      [] op = "LogMedia" -> TypeMedia
      [] op = "LogError" -> TypeError
      [] op = "LogSystem" -> TypeSystem

\* a LogFilter is the set of stream types it accepts for the request at hand
AcceptAll == LogTypes

RejectAll == {}

LogFilters == {AcceptAll, RejectAll}

\* filter.ShouldLog(c, logType)
FilterShouldLog(filter, logType) == logType \in filter

\* LogSystem is the one typed operation that never reads l.filter
ConsultsFilter(op) == op # "LogSystem"

\* what a LogWriter's Write can return: nil (a MultiWriter returns nil even
\* when none of its members could be written), or an error (an I/O error, the
\* buffer of an AsyncWriter is full, the file is closed)
WriteOutcomes == {"ok", "ioError", "bufferFull", "closed"}

\* (mutant) the typed operation hands the error of Log on to its caller
TypedReturnPropagating(outcome) == IF outcome = "ok" THEN "normal" ELSE "error"

\* the typed operations call l.Log(entry) as a statement: its result is dropped
TypedReturn(outcome) == "normal"

NoCall ==
    [op |-> "none", enabled |-> FALSE, consulted |-> FALSE, accepted |-> FALSE,
     logEnabled |-> FALSE, afterFailure |-> FALSE, writes |-> 0, type |-> "none",
     afterClose |-> FALSE, outcome |-> "none", returned |-> "pending"]

\* a call that has just started
NewCall(op) ==
    [NoCall EXCEPT !.op = op, !.enabled = lgEnabled, !.logEnabled = lgEnabled]

\* NewStandardLogger
LGInit ==
    /\ lgEnabled = TRUE
    /\ lgFilter = AcceptAll
    /\ lgWriter = 1
    /\ lgWriters = 1
    /\ lgClosed = {}
    /\ lgPc = [g \in LogCallers |-> "idle"]
    /\ lgCall = [g \in LogCallers |-> NoCall]
    /\ lgHeld = [g \in LogCallers |-> 0]
    /\ lgLast = NoCall
    /\ lgFailed = FALSE

\* LogAccess, LogMedia, LogError, LogSystem up to the call of l.Log: the
\* enabled test, the filter read under the shared lock and consulted, the entry
LogBegin(g, op) ==
    /\ lgPc[g] = "idle"
    /\ LET call == NewCall(op)
       IN  IF ~lgEnabled
           THEN /\ lgLast' = [call EXCEPT !.returned = "normal"]
                /\ UNCHANGED <<lgPc, lgCall>>
           ELSE IF ConsultsFilter(op) /\ ~FilterShouldLog(lgFilter, StreamOf(op))
           THEN /\ lgLast' = [call EXCEPT !.consulted = TRUE, !.returned = "normal"]
                /\ UNCHANGED <<lgPc, lgCall>>
           ELSE /\ lgCall' = [lgCall EXCEPT ![g] =
                                  [call EXCEPT !.consulted = ConsultsFilter(op),
                                               !.accepted = ConsultsFilter(op)]]
                /\ lgPc' = [lgPc EXCEPT ![g] = "log"]
                /\ UNCHANGED lgLast
    /\ UNCHANGED <<lgEnabled, lgFilter, lgWriter, lgWriters, lgClosed, lgHeld, lgFailed>>
    /\ UNCHANGED lgOthers

\* Log up to the call of writer.Write: the enabled test and the writer read
\* under the shared lock
LogReadWriter(g) ==
    /\ lgPc[g] = "log"
    /\ IF ~lgEnabled
       THEN /\ lgLast' = [lgCall[g] EXCEPT !.logEnabled = FALSE, !.returned = "normal"]
            /\ lgPc' = [lgPc EXCEPT ![g] = "idle"]
            /\ lgCall' = [lgCall EXCEPT ![g] = NoCall]
            /\ UNCHANGED lgHeld
       ELSE /\ lgHeld' = [lgHeld EXCEPT ![g] = lgWriter]
            /\ lgPc' = [lgPc EXCEPT ![g] = "write"]
            /\ UNCHANGED <<lgCall, lgLast>>
    /\ UNCHANGED <<lgEnabled, lgFilter, lgWriter, lgWriters, lgClosed, lgFailed>>
    /\ UNCHANGED lgOthers

\* Log: writer.Write(entry), made after the lock is released, and the return
\* of the typed operation
LogWrite(g) ==
    /\ lgPc[g] = "write"
    /\ \E outcome \in WriteOutcomes :
      /\ lgFailed' = (lgFailed \/ outcome # "ok")
      /\ lgLast' = [lgCall[g] EXCEPT !.writes = @ + 1,
                                      !.type = StreamOf(lgCall[g].op),
                                      !.afterClose = lgHeld[g] \in lgClosed,
                                      !.afterFailure = lgFailed,
                                      !.outcome = outcome,
                                      !.returned = TypedReturn(outcome)]
    /\ lgPc' = [lgPc EXCEPT ![g] = "idle"]
    /\ lgCall' = [lgCall EXCEPT ![g] = NoCall]
    /\ lgHeld' = [lgHeld EXCEPT ![g] = 0]
    /\ UNCHANGED <<lgEnabled, lgFilter, lgWriter, lgWriters, lgClosed>>
    /\ UNCHANGED lgOthers

\* SetFilter
SetFilter ==
    /\ \E filter \in LogFilters \ {lgFilter} : lgFilter' = filter
    /\ UNCHANGED <<lgEnabled, lgWriter, lgWriters, lgClosed, lgPc, lgCall, lgHeld, lgLast, lgFailed>>
    /\ UNCHANGED lgOthers

\* SetEnabled
SetEnabled ==
    /\ lgEnabled' = ~lgEnabled
    /\ UNCHANGED <<lgFilter, lgWriter, lgWriters, lgClosed, lgPc, lgCall, lgHeld, lgLast, lgFailed>>
    /\ UNCHANGED lgOthers

\* SetWriter(writer) with a writer made for the call: under the exclusive
\* lock the old writer is closed and the reference replaced
SetWriter ==
    /\ lgWriters <= MaxSwaps
    /\ lgClosed' = lgClosed \cup {lgWriter}
    /\ lgWriter' = lgWriters + 1
    /\ lgWriters' = lgWriters + 1
    /\ UNCHANGED <<lgEnabled, lgFilter, lgPc, lgCall, lgHeld, lgLast, lgFailed>>
    /\ UNCHANGED lgOthers

\* StandardLogger.Close: under the exclusive lock the writer is closed; the
\* reference stays
LoggerClose ==
    /\ lgWriter \notin lgClosed
    /\ lgClosed' = lgClosed \cup {lgWriter}
    /\ UNCHANGED <<lgEnabled, lgFilter, lgWriter, lgWriters, lgPc, lgCall, lgHeld, lgLast, lgFailed>>
    /\ UNCHANGED lgOthers

LGNext ==
    \/ \E g \in LogCallers, op \in TypedOps : LogBegin(g, op)
    \/ \E g \in LogCallers : LogReadWriter(g)
    \/ \E g \in LogCallers : LogWrite(g)
    \/ SetFilter
    \/ SetEnabled
    \/ SetWriter
    \/ LoggerClose

\* ---- claims about StandardLogger

\* the latest typed operation has returned and found the logger enabled at
\* both of its tests
ReturnedOnEnabledLogger ==
    /\ lgLast.returned # "pending"
    /\ lgLast.enabled
    /\ lgLast.logEnabled

\* the filter gate, for the latest typed operation
FilterGated ==
    /\ lgLast.consulted
    /\ lgLast.returned = "normal"
    /\ ~lgLast.accepted => lgLast.writes = 0
    /\ lgLast.accepted => lgLast.writes = 1 /\ lgLast.type = StreamOf(lgLast.op)

\* C13: every typed operation on an enabled Logger consults the Filter; on a
\* reject the Writer receives nothing and the caller no error; on an accept
\* the Writer receives exactly one entry of the operation's stream type.
C13_FilterGatesEveryTypedOperation == ReturnedOnEnabledLogger => FilterGated

\* C13 for the three operations that take a request context
C13_HoldsForContextOperations ==
    ReturnedOnEnabledLogger /\ lgLast.op # "LogSystem" => FilterGated

\* C14: no Write is invoked on a Writer after that Writer's Close has been
\* invoked, whatever the interleaving of log operations with SetWriter and
\* Close; an entry goes to the old Writer while open or to the new one.
C14_NoWriteAfterClose == ~lgLast.afterClose

\* C19: whatever the Writer returns, the typed operation returns normally, and
\* a call whose Write comes after a failed Write is still attempted against
\* the Writer.
C19_WriterFailureNeverReachesCaller ==
    /\ lgLast.returned \in {"pending", "normal"}
    /\ ReturnedOnEnabledLogger /\ (lgLast.consulted => lgLast.accepted) =>
            lgLast.writes = 1 /\ lgLast.outcome \in WriteOutcomes

C19_Witness ==
    /\ ReturnedOnEnabledLogger
    /\ lgLast.afterFailure
    /\ lgLast.writes = 1
    /\ lgLast.outcome \in WriteOutcomes \ {"ok"}
    /\ lgLast.returned = "normal"

\* ---------------------------------------------------------- LoggerManager
\* the configurations: each switch of LogConfig that decides what is built
LogConfigs ==
    [Enabled : BOOLEAN, Console : BOOLEAN, File : BOOLEAN, Async : BOOLEAN,
     AccessLog : BOOLEAN, MediaLog : BOOLEAN, ErrorLog : BOOLEAN, SystemLog : BOOLEAN]

\* DefaultLogConfig
DefaultLogConfig ==
    [Enabled |-> TRUE, Console |-> TRUE, File |-> TRUE, Async |-> TRUE,
     AccessLog |-> TRUE, MediaLog |-> TRUE, ErrorLog |-> TRUE, SystemLog |-> TRUE]

\* config.AccessLog.Enabled, config.MediaLog.Enabled, ...
StreamEnabled(config, logType) ==
    CASE logType = TypeAccess -> config.AccessLog
      [] logType = TypeMedia -> config.MediaLog
      [] logType = TypeError -> config.ErrorLog
      [] logType = TypeSystem -> config.SystemLog

\* a writer instance: its kind, the writers it forwards to (the members of a
\* MultiWriter, the inner writer of an AsyncWriter) and the number of Close
\* calls made on it
WriterInstance(kind, members) == [kind |-> kind, members |-> members, closes |-> 0]

\* no logger for the stream: the map has no entry, GetLogger returns nil
NoLogger == [gen |-> 0, writer |-> 0]

\* createWriter: the heap after it and the writer it returns; fileFails: the
\* call of NewFileWriter returns an error
createWriter(heap, config, fileFails) ==
    LET h1 == IF config.Console THEN Append(heap, WriterInstance("console", <<>>)) ELSE heap
        w1 == IF config.Console THEN <<Len(h1)>> ELSE <<>>
        fileMade == config.File /\ ~fileFails
        h2 == IF fileMade THEN Append(h1, WriterInstance("file", <<>>)) ELSE h1
        h3 == IF fileMade /\ config.Async
              THEN Append(h2, WriterInstance("async", <<Len(h2)>>)) ELSE h2
        writers == IF fileMade THEN Append(w1, Len(h3)) ELSE w1
    IN  IF Len(writers) = 1 THEN [heap |-> h3, writer |-> writers[1]]
        ELSE IF Len(writers) > 1
        THEN [heap |-> Append(h3, WriterInstance("multi", writers)), writer |-> Len(h3) + 1]
        ELSE [heap |-> Append(h3, WriterInstance("console", <<>>)), writer |-> Len(h3) + 1]

\* createMediaWriter; mediaFails: NewFileWriter("./logs/media_access.log", ..)
\* returns an error, fileFails: so does the NewFileWriter of the createWriter
\* it falls back to
createMediaWriter(heap, config, mediaFails, fileFails) ==
    IF config.File
    THEN IF mediaFails THEN createWriter(heap, config, fileFails)
         ELSE LET h1 == Append(heap, WriterInstance("file", <<>>))
                  h2 == IF config.Console
                        THEN Append(h1, WriterInstance("console", <<>>)) ELSE h1
              IN  IF config.Console
                  THEN [heap |-> Append(h2, WriterInstance("multi", <<Len(h1), Len(h2)>>)),
                        writer |-> Len(h2) + 1]
                  ELSE [heap |-> h1, writer |-> Len(h1)]
    ELSE createWriter(heap, config, fileFails)

\* which NewFileWriter calls of a build fail: general (createWriter), media
\* (createMediaWriter), fallback (the createWriter createMediaWriter falls
\* back to)
Failures == [general : BOOLEAN, media : BOOLEAN, fallback : BOOLEAN]

NoFailure == [general |-> FALSE, media |-> FALSE, fallback |-> FALSE]

\* the failures that can show in a build under config
FailuresOf(config) ==
    {f \in Failures :
        /\ f.general => config.Enabled /\ config.File
        /\ f.media => config.Enabled /\ config.File /\ config.MediaLog
        /\ f.fallback => f.media}

\* initializeLoggers on an empty map: the heap and the map it leaves.  The
\* ConsoleWriter NewStandardLogger gives each logger is replaced at once by
\* SetWriter and is left out of the heap.
initializeLoggers(heap, config, gen, fails) ==
    IF ~config.Enabled
    THEN [heap |-> heap, loggers |-> [t \in LogTypes |-> NoLogger]]
    ELSE LET general == createWriter(heap, config, fails.general)
             media == IF config.MediaLog
                      THEN createMediaWriter(general.heap, config, fails.media, fails.fallback)
                      ELSE [heap |-> general.heap, writer |-> 0]
         IN  [heap |-> media.heap,
              loggers |-> [t \in LogTypes |->
                  IF ~StreamEnabled(config, t) THEN NoLogger
                  ELSE IF t = TypeMedia THEN [gen |-> gen, writer |-> media.writer]
                  ELSE [gen |-> gen, writer |-> general.writer]]]

\* Close of the writer id and of the writers it forwards to; a second Close of
\* an AsyncWriter closes its closed done channel, which panics
RECURSIVE CloseWriter(_, _)
RECURSIVE CloseMembers(_, _, _)
CloseMembers(state, members, k) ==
    IF k > Len(members) \/ state.panicked THEN state
    ELSE CloseMembers(CloseWriter(state, members[k]), members, k + 1)

CloseWriter(state, id) ==
    LET w == state.heap[id]
        counted == [state EXCEPT !.heap[id].closes = @ + 1]
    IN  IF w.kind = "async" /\ w.closes > 0 THEN [counted EXCEPT !.panicked = TRUE]
        ELSE CloseMembers(counted, w.members, 1)

\* a GetLogger call: the generation of the logger it returned (0: nil) and
\* whether that is the entry of the mapping the latest completed build left
NoGet == [called |-> FALSE, gen |-> 0, complete |-> TRUE]

\* NewLoggerManager(config)
NewLoggerManager(config, fails) ==
    LET built == initializeLoggers(<<>>, config, 1, fails)
    IN  /\ mgConfig = config
        /\ mgLoggers = built.loggers
        /\ mgHeap = built.heap
        /\ mgFails = fails
        /\ mgGen = 1
        /\ mgMu = "free"
        /\ mgPc = "idle"
        /\ mgToClose = {}
        /\ mgPanicked = FALSE
        /\ mgCommitted = built.loggers
        /\ mgLastOp = "new"
        /\ mgGet = NoGet

MGInit == \E config \in LogConfigs : \E fails \in FailuresOf(config) : NewLoggerManager(config, fails)

MGFixed == NewLoggerManager(DefaultLogConfig, NoFailure)

\* the streams the map has a logger for
Mapped(loggers) == {t \in LogTypes : loggers[t] # NoLogger}

\* UpdateConfig: m.mu.Lock()
UpdateConfigLock ==
    /\ ~mgPanicked
    /\ mgMu = "free"
    /\ mgGen <= MaxUpdates
    /\ mgMu' = "update"
    /\ mgPc' = "closing"
    /\ mgToClose' = Mapped(mgLoggers)
    /\ UNCHANGED <<mgConfig, mgLoggers, mgHeap, mgFails, mgGen, mgPanicked, mgCommitted,
                   mgLastOp, mgGet>>
    /\ UNCHANGED mgOthers

\* LoggerManager.Close: m.mu.Lock()
ManagerCloseLock ==
    /\ ~mgPanicked
    /\ mgMu = "free"
    /\ mgLastOp # "close"
    /\ mgMu' = "close"
    /\ mgPc' = "closing"
    /\ mgToClose' = Mapped(mgLoggers)
    /\ UNCHANGED <<mgConfig, mgLoggers, mgHeap, mgFails, mgGen, mgPanicked, mgCommitted,
                   mgLastOp, mgGet>>
    /\ UNCHANGED mgOthers

\* one turn of the loop over m.loggers, in the order the map iteration picks:
\* stdLogger.Close().  A panic runs the deferred Unlock.
TeardownLogger ==
    /\ mgPc = "closing"
    /\ \E t \in mgToClose :
        LET closed == CloseWriter([heap |-> mgHeap, panicked |-> FALSE], mgLoggers[t].writer)
        IN  /\ mgHeap' = closed.heap
            /\ mgToClose' = mgToClose \ {t}
            /\ mgPanicked' = closed.panicked
            /\ mgPc' = IF closed.panicked THEN "idle" ELSE mgPc
            /\ mgMu' = IF closed.panicked THEN "free" ELSE mgMu
    /\ UNCHANGED <<mgConfig, mgLoggers, mgFails, mgGen, mgCommitted, mgLastOp, mgGet>>
    /\ UNCHANGED mgOthers

\* UpdateConfig(config): m.loggers = make(..); m.config = config
UpdateConfigClear ==
    /\ mgMu = "update"
    /\ mgPc = "closing"
    /\ mgToClose = {}
    /\ \E config \in LogConfigs : mgConfig' = config
    /\ mgLoggers' = [t \in LogTypes |-> NoLogger]
    /\ mgHeap' = <<>>
    /\ mgPc' = "init"
    /\ UNCHANGED <<mgFails, mgGen, mgMu, mgToClose, mgPanicked, mgCommitted, mgLastOp, mgGet>>
    /\ UNCHANGED mgOthers

\* UpdateConfig: m.initializeLoggers() and the deferred Unlock
UpdateConfigInitialize ==
    /\ mgMu = "update"
    /\ mgPc = "init"
    /\ \E fails \in FailuresOf(mgConfig) :
        LET built == initializeLoggers(mgHeap, mgConfig, mgGen + 1, fails)
        IN  /\ mgLoggers' = built.loggers
            /\ mgHeap' = built.heap
            /\ mgCommitted' = built.loggers
            /\ mgFails' = fails
    /\ mgGen' = mgGen + 1
    /\ mgMu' = "free"
    /\ mgPc' = "idle"
    /\ mgLastOp' = "update"
    /\ UNCHANGED <<mgConfig, mgToClose, mgPanicked, mgGet>>
    /\ UNCHANGED mgOthers

\* LoggerManager.Close: the return and the deferred Unlock; m.loggers is left
\* as it is
ManagerCloseReturn ==
    /\ mgMu = "close"
    /\ mgPc = "closing"
    /\ mgToClose = {}
    /\ mgMu' = "free"
    /\ mgPc' = "idle"
    /\ mgLastOp' = "close"
    /\ UNCHANGED <<mgConfig, mgLoggers, mgHeap, mgFails, mgGen, mgToClose, mgPanicked,
                   mgCommitted, mgGet>>
    /\ UNCHANGED mgOthers

\* (mutant) GetLogger reads the map without taking the lock
ReadLockAvailableAlways == TRUE

\* m.mu.RLock() succeeds: no goroutine holds the exclusive lock
ReadLockAvailable == mgMu = "free"

\* GetLogger(logType)
GetLogger ==
    /\ ReadLockAvailable
    /\ \E t \in LogTypes :
        mgGet' = [called |-> TRUE, gen |-> mgLoggers[t].gen,
                  complete |-> mgLoggers[t] = mgCommitted[t]]
    /\ UNCHANGED <<mgConfig, mgLoggers, mgHeap, mgFails, mgGen, mgMu, mgPc, mgToClose,
                   mgPanicked, mgCommitted, mgLastOp>>
    /\ UNCHANGED mgOthers

MGNext ==
    \/ UpdateConfigLock
    \/ ManagerCloseLock
    \/ TeardownLogger
    \/ UpdateConfigClear
    \/ UpdateConfigInitialize
    \/ ManagerCloseReturn
    \/ GetLogger

\* ---- claims about LoggerManager

\* the streams a configuration asks a logger for
EnabledStreams(config) ==
    {t \in LogTypes : config.Enabled /\ StreamEnabled(config, t)}

\* C15: GetLogger returns the entry of a complete mapping, the one before or
\* the one after an UpdateConfig, never one of an emptied or partly rebuilt
\* mapping; when UpdateConfig has returned the mapping has a Logger for
\* exactly the streams the new configuration enables, none of them old.
C15_UpdateConfigIsAtomicFullRebuild ==
    /\ mgGet.called => mgGet.complete
    /\ mgMu = "free" /\ mgLastOp = "update" =>
        /\ Mapped(mgLoggers) = EnabledStreams(mgConfig)
        /\ \A t \in Mapped(mgLoggers) : mgLoggers[t].gen = mgGen
        /\ mgGen > 1

C15_Witness ==
    /\ mgLastOp = "update"
    /\ mgGet.called
    /\ mgGet.gen = 2
    /\ Mapped(mgLoggers) # LogTypes

\* C16: once LoggerManager.Close has returned, GetLogger returns nil for every
\* stream type.
C16_NoLoggerAfterClose ==
    [][mgLastOp = "close" /\ mgMu = "free" /\ mgGet' # mgGet => mgGet'.gen = 0]_vars

\* the stream's own file writer could not be created in the latest build
FileWriterFailed(logType) ==
    IF logType = TypeMedia THEN mgFails.media ELSE mgFails.general

\* C17: whatever the configuration and whichever file writers cannot be
\* created, NewLoggerManager and UpdateConfig succeed with a Logger for each
\* enabled stream, bound to a non-nil Writer, and a stream whose file writer
\* could not be created has a console-only Writer.
C17_BuildSucceedsWithConsoleFallback ==
    /\ ~mgPanicked
    /\ mgMu = "free" =>
        \A t \in EnabledStreams(mgConfig) :
            /\ mgLoggers[t] # NoLogger
            /\ mgLoggers[t].writer # 0
            /\ FileWriterFailed(t) => mgHeap[mgLoggers[t].writer].kind = "console"

\* C17 without its two failing cases: a build that is reached has a Logger
\* with a Writer for each enabled stream, and the access, error and system
\* streams have a console-only Writer when the general file writer could not
\* be created.
C17_HoldsForReachedBuildsOfGeneralStreams ==
    mgMu = "free" /\ mgLastOp # "close" /\ ~mgPanicked =>
        \A t \in EnabledStreams(mgConfig) :
            /\ mgLoggers[t] # NoLogger
            /\ mgLoggers[t].writer \in 1..Len(mgHeap)
            /\ t # TypeMedia /\ mgFails.general => mgHeap[mgLoggers[t].writer].kind = "console"

\* C25: in the mapping the manager holds, no writer instance is the writer
\* of two loggers.
C25_NoWriterBoundToTwoLoggers ==
    \A a, b \in Mapped(mgLoggers) :
        a # b => mgLoggers[a].writer # mgLoggers[b].writer

\* C27: the teardown of Close and of UpdateConfig calls Close at most once on
\* each writer instance and ends without a panic.
C27_TeardownClosesEachWriterOnce ==
    /\ ~mgPanicked
    /\ \A id \in 1..Len(mgHeap) : mgHeap[id].closes <= 1

\* ------------------------------------------------ the locks of the pipeline
\* One manager whose logger writes through an AsyncWriter over a FileWriter
\* (or straight to the FileWriter), called from several goroutines: the
\* manager's m.mu, the logger's l.mu, the FileWriter's w.mu and the wait of
\* AsyncWriter.Close for the worker.  A read section (RLock .. RUnlock) has
\* no call inside and is one step, taken when no writer holds the lock.  A
\* goroutine that works on a logger or writer that has been replaced meets
\* no other goroutine there; it is taken to work on the current one, where
\* it waits at least as much.

LockThreads == 1..MaxLockThreads

\* the worker goroutine, numbered after the callers
TheWorker == MaxLockThreads + 1

NewLockedPipeline(async) ==
    /\ dlAsync = async
    /\ dlMgr = 0
    /\ dlLog = 0
    /\ dlFile = 0
    /\ dlCh = 0
    /\ dlDone = FALSE
    /\ dlWorker = IF async THEN "select" ELSE "none"
    /\ dlTeardowns = 0
    /\ dlPc = [t \in LockThreads |-> "idle"]
    /\ dlOp = [t \in LockThreads |-> "none"]
    /\ dlPanicked = FALSE

DLInit == \E async \in BOOLEAN : NewLockedPipeline(async)

DLFixed == NewLockedPipeline(FALSE)

\* (mutant) an inner Write that needs the logger's lock as well
WorkerMayWriteUnderLoggerLock == dlFile = 0 /\ dlLog = 0

\* the worker's inner Write, FileWriter.Write, can take w.mu
WorkerMayWrite == dlFile = 0

\* GetLogger: m.mu.RLock(), m.loggers[logType], RUnlock
DLGetLogger(t) ==
    /\ ~dlPanicked
    /\ dlPc[t] = "idle"
    /\ dlMgr = 0
    /\ dlOp' = [dlOp EXCEPT ![t] = "GetLogger"]
    /\ dlPc' = [dlPc EXCEPT ![t] = "haveLogger"]
    /\ UNCHANGED <<dlAsync, dlMgr, dlLog, dlFile, dlCh, dlDone, dlWorker, dlTeardowns,
                   dlPanicked>>
    /\ UNCHANGED dlOthers

\* a typed log operation and Log: l.mu.RLock(), read l.filter / l.writer,
\* RUnlock
DLLogRead(t) ==
    /\ ~dlPanicked
    /\ dlPc[t] = "haveLogger"
    /\ dlLog = 0
    /\ dlOp' = [dlOp EXCEPT ![t] = "Log"]
    /\ dlPc' = [dlPc EXCEPT ![t] = "write"]
    /\ UNCHANGED <<dlAsync, dlMgr, dlLog, dlFile, dlCh, dlDone, dlWorker, dlTeardowns,
                   dlPanicked>>
    /\ UNCHANGED dlOthers

\* Log: writer.Write(entry), outside the logger's lock.  AsyncWriter.Write
\* enqueues or returns the error at once; FileWriter.Write goes for w.mu.
DLWrite(t) ==
    /\ ~dlPanicked
    /\ dlPc[t] = "write"
    /\ IF dlAsync
       THEN /\ dlCh' = IF dlCh >= MaxBuf THEN dlCh ELSE dlCh + 1
            /\ dlPc' = [dlPc EXCEPT ![t] = "idle"]
       ELSE /\ dlPc' = [dlPc EXCEPT ![t] = "fileLock"]
            /\ UNCHANGED dlCh
    /\ UNCHANGED <<dlAsync, dlMgr, dlLog, dlFile, dlDone, dlWorker, dlTeardowns, dlOp,
                   dlPanicked>>
    /\ UNCHANGED dlOthers

\* FileWriter.Write: w.mu.Lock()
DLFileLock(t) ==
    /\ ~dlPanicked
    /\ dlPc[t] = "fileLock"
    /\ dlFile = 0
    /\ dlFile' = t
    /\ dlPc' = [dlPc EXCEPT ![t] = "fileWrite"]
    /\ UNCHANGED <<dlAsync, dlMgr, dlLog, dlCh, dlDone, dlWorker, dlTeardowns, dlOp,
                   dlPanicked>>
    /\ UNCHANGED dlOthers

\* FileWriter.Write: the append and the deferred w.mu.Unlock()
DLFileUnlock(t) ==
    /\ ~dlPanicked
    /\ dlPc[t] = "fileWrite"
    /\ dlFile' = 0
    /\ dlPc' = [dlPc EXCEPT ![t] = "idle"]
    /\ UNCHANGED <<dlAsync, dlMgr, dlLog, dlCh, dlDone, dlWorker, dlTeardowns, dlOp,
                   dlPanicked>>
    /\ UNCHANGED dlOthers

\* SetFilter on the logger t holds: l.mu.Lock(), l.filter = filter, Unlock
DLSetFilter(t) ==
    /\ ~dlPanicked
    /\ dlPc[t] = "haveLogger"
    /\ dlLog = 0
    /\ dlOp' = [dlOp EXCEPT ![t] = "SetFilter"]
    /\ dlPc' = [dlPc EXCEPT ![t] = "idle"]
    /\ UNCHANGED <<dlAsync, dlMgr, dlLog, dlFile, dlCh, dlDone, dlWorker, dlTeardowns,
                   dlPanicked>>
    /\ UNCHANGED dlOthers

\* UpdateConfig, LoggerManager.Close: m.mu.Lock()
DLManagerLock(t) ==
    /\ ~dlPanicked
    /\ dlPc[t] = "idle"
    /\ dlTeardowns < MaxTeardowns
    /\ dlMgr = 0
    /\ dlMgr' = t
    /\ \E op \in {"UpdateConfig", "Close"} : dlOp' = [dlOp EXCEPT ![t] = op]
    /\ dlTeardowns' = dlTeardowns + 1
    /\ dlPc' = [dlPc EXCEPT ![t] = "toLogger"]
    /\ UNCHANGED <<dlAsync, dlLog, dlFile, dlCh, dlDone, dlWorker, dlPanicked>>
    /\ UNCHANGED dlOthers

\* SetWriter on the logger t holds: the call begins
DLSetWriter(t) ==
    /\ ~dlPanicked
    /\ dlPc[t] = "haveLogger"
    /\ dlTeardowns < MaxTeardowns
    /\ dlOp' = [dlOp EXCEPT ![t] = "SetWriter"]
    /\ dlTeardowns' = dlTeardowns + 1
    /\ dlPc' = [dlPc EXCEPT ![t] = "toLogger"]
    /\ UNCHANGED <<dlAsync, dlMgr, dlLog, dlFile, dlCh, dlDone, dlWorker, dlPanicked>>
    /\ UNCHANGED dlOthers

\* StandardLogger.Close, SetWriter: l.mu.Lock()
DLLoggerLock(t) ==
    /\ ~dlPanicked
    /\ dlPc[t] = "toLogger"
    /\ dlLog = 0
    /\ dlLog' = t
    /\ dlPc' = [dlPc EXCEPT ![t] = "toWriter"]
    /\ UNCHANGED <<dlAsync, dlMgr, dlFile, dlCh, dlDone, dlWorker, dlTeardowns, dlOp,
                   dlPanicked>>
    /\ UNCHANGED dlOthers

\* l.writer.Close(): AsyncWriter.Close does close(w.done), which panics on a
\* writer closed before; a FileWriter is closed directly
DLWriterClose(t) ==
    /\ ~dlPanicked
    /\ dlPc[t] = "toWriter"
    /\ IF dlAsync
       THEN IF dlDone
            THEN dlPanicked' = TRUE /\ UNCHANGED <<dlDone, dlPc>>
            ELSE /\ dlDone' = TRUE
                 /\ dlPc' = [dlPc EXCEPT ![t] = "join"]
                 /\ UNCHANGED dlPanicked
       ELSE /\ dlPc' = [dlPc EXCEPT ![t] = "closeFile"]
            /\ UNCHANGED <<dlDone, dlPanicked>>
    /\ UNCHANGED <<dlAsync, dlMgr, dlLog, dlFile, dlCh, dlWorker, dlTeardowns, dlOp>>
    /\ UNCHANGED dlOthers

\* AsyncWriter.Close: w.wg.Wait() returns
DLJoin(t) ==
    /\ ~dlPanicked
    /\ dlPc[t] = "join"
    /\ dlWorker = "exited"
    /\ dlPc' = [dlPc EXCEPT ![t] = "closeFile"]
    /\ UNCHANGED <<dlAsync, dlMgr, dlLog, dlFile, dlCh, dlDone, dlWorker, dlTeardowns,
                   dlOp, dlPanicked>>
    /\ UNCHANGED dlOthers

\* FileWriter.Close: w.mu.Lock(), w.file.Close(), Unlock
DLFileClose(t) ==
    /\ ~dlPanicked
    /\ dlPc[t] = "closeFile"
    /\ dlFile = 0
    /\ dlPc' = [dlPc EXCEPT ![t] = "closed"]
    /\ UNCHANGED <<dlAsync, dlMgr, dlLog, dlFile, dlCh, dlDone, dlWorker, dlTeardowns,
                   dlOp, dlPanicked>>
    /\ UNCHANGED dlOthers

\* the rest of the call and its deferred Unlocks: SetWriter installs the new
\* writer and UpdateConfig rebuilds the loggers (a new AsyncWriter with its
\* worker); LoggerManager.Close leaves the closed writer in place
DLFinish(t) ==
    /\ ~dlPanicked
    /\ dlPc[t] = "closed"
    /\ dlLog' = 0
    /\ dlMgr' = IF dlMgr = t THEN 0 ELSE dlMgr
    /\ IF dlOp[t] \in {"UpdateConfig", "SetWriter"}
       THEN /\ dlDone' = FALSE
            /\ dlCh' = 0
            /\ dlWorker' = IF dlAsync THEN "select" ELSE "none"
       ELSE UNCHANGED <<dlDone, dlCh, dlWorker>>
    /\ dlPc' = [dlPc EXCEPT ![t] = "idle"]
    /\ UNCHANGED <<dlAsync, dlFile, dlTeardowns, dlOp, dlPanicked>>
    /\ UNCHANGED dlOthers

\* worker: a receive from w.ch, in the outer select or in the drain loop
DLWorkerRecv ==
    /\ ~dlPanicked
    /\ dlWorker \in {"select", "drain"}
    /\ dlCh > 0
    /\ dlCh' = dlCh - 1
    /\ dlWorker' = IF dlWorker = "select" THEN "lock" ELSE "drainLock"
    /\ UNCHANGED <<dlAsync, dlMgr, dlLog, dlFile, dlDone, dlTeardowns, dlPc, dlOp,
                   dlPanicked>>
    /\ UNCHANGED dlOthers

\* worker: w.writer.Write(entry), the w.mu.Lock() of FileWriter.Write
DLWorkerFileLock ==
    /\ ~dlPanicked
    /\ dlWorker \in {"lock", "drainLock"}
    /\ WorkerMayWrite
    /\ dlFile' = TheWorker
    /\ dlWorker' = IF dlWorker = "lock" THEN "write" ELSE "drainWrite"
    /\ UNCHANGED <<dlAsync, dlMgr, dlLog, dlCh, dlDone, dlTeardowns, dlPc, dlOp,
                   dlPanicked>>
    /\ UNCHANGED dlOthers

\* worker: FileWriter.Write appends and unlocks
DLWorkerFileUnlock ==
    /\ ~dlPanicked
    /\ dlWorker \in {"write", "drainWrite"}
    /\ dlFile' = 0
    /\ dlWorker' = IF dlWorker = "write" THEN "select" ELSE "drain"
    /\ UNCHANGED <<dlAsync, dlMgr, dlLog, dlCh, dlDone, dlTeardowns, dlPc, dlOp,
                   dlPanicked>>
    /\ UNCHANGED dlOthers

\* worker: case <-w.done of the outer select
DLWorkerDone ==
    /\ ~dlPanicked
    /\ dlWorker = "select"
    /\ dlDone
    /\ dlWorker' = "drain"
    /\ UNCHANGED <<dlAsync, dlMgr, dlLog, dlFile, dlCh, dlDone, dlTeardowns, dlPc, dlOp,
                   dlPanicked>>
    /\ UNCHANGED dlOthers

\* worker: default case of the drain loop, return
DLWorkerExit ==
    /\ ~dlPanicked
    /\ dlWorker = "drain"
    /\ dlCh = 0
    /\ dlWorker' = "exited"
    /\ UNCHANGED <<dlAsync, dlMgr, dlLog, dlFile, dlCh, dlDone, dlTeardowns, dlPc, dlOp,
                   dlPanicked>>
    /\ UNCHANGED dlOthers

DLNext ==
    \/ \E t \in LockThreads :
        \/ DLGetLogger(t)
        \/ DLLogRead(t)
        \/ DLWrite(t)
        \/ DLFileLock(t)
        \/ DLFileUnlock(t)
        \/ DLSetFilter(t)
        \/ DLManagerLock(t)
        \/ DLSetWriter(t)
        \/ DLLoggerLock(t)
        \/ DLWriterClose(t)
        \/ DLJoin(t)
        \/ DLFileClose(t)
        \/ DLFinish(t)
    \/ DLWorkerRecv
    \/ DLWorkerFileLock
    \/ DLWorkerFileUnlock
    \/ DLWorkerDone
    \/ DLWorkerExit

\* ---- claims about the locks

\* Whether a goroutine or the worker can take its next step, and whom it
\* waits for otherwise: the holder of the lock it wants or the worker it
\* joins (0: nobody).
CanStep(x) ==
    IF x = TheWorker
    THEN CASE dlWorker = "select" -> dlCh > 0 \/ dlDone
           [] dlWorker \in {"lock", "drainLock"} -> WorkerMayWrite
           [] dlWorker \in {"write", "drainWrite", "drain"} -> TRUE
           [] OTHER -> FALSE
    ELSE CASE dlPc[x] \in {"haveLogger", "toLogger"} -> dlLog = 0
           [] dlPc[x] \in {"fileLock", "closeFile"} -> dlFile = 0
           [] dlPc[x] = "join" -> dlWorker = "exited"
           [] OTHER -> TRUE

WaitsFor(x) ==
    IF x = TheWorker
    THEN (IF dlWorker \in {"lock", "drainLock"} /\ dlFile # 0 THEN dlFile ELSE 0)
    ELSE CASE dlPc[x] \in {"haveLogger", "toLogger"} /\ dlLog # 0 -> dlLog
           [] dlPc[x] \in {"fileLock", "closeFile"} /\ dlFile # 0 -> dlFile
           [] dlPc[x] = "join" -> TheWorker
           [] OTHER -> 0

RECURSIVE WillBeReleased(_, _)
\* x can take its step, or waits for one that can, along a chain of waits
WillBeReleased(x, depth) ==
    \/ CanStep(x)
    \/ /\ depth > 0
       /\ WaitsFor(x) # 0
       /\ WillBeReleased(WaitsFor(x), depth - 1)

\* The locks goroutine t holds.
HoldsManager(t) == dlMgr = t

HoldsLogger(t) == dlLog = t

HoldsFile(t) == dlFile = t

\* In a state, no goroutine waits in a cycle of waits or for one that cannot
\* move; whoever waits for the worker holds no lock the worker takes.
NoWaitForEver ==
    ~dlPanicked =>
        /\ \A t \in LockThreads : WillBeReleased(t, MaxLockThreads + 1)
        /\ \A t \in LockThreads : dlPc[t] = "join" => ~HoldsFile(t)

\* A step takes the manager's lock only with no other lock held, the
\* logger's lock only with the FileWriter's lock not held, and the worker
\* takes the FileWriter's lock only.
LocksTakenInOrder ==
    /\ \A t \in LockThreads :
        /\ (HoldsManager(t)' /\ ~HoldsManager(t)) => ~HoldsLogger(t) /\ ~HoldsFile(t)
        /\ (HoldsLogger(t)' /\ ~HoldsLogger(t)) => ~HoldsFile(t)
    /\ dlMgr' # TheWorker /\ dlLog' # TheWorker

\* C30: no interleaving of GetLogger, the log operations, SetFilter,
\* SetWriter, UpdateConfig, LoggerManager.Close, the writers' Write and Close
\* and the worker reaches a state of deadlock; locks nest in the order
\* manager, logger, writer; the worker needs no lock held by a goroutine
\* that waits for it.
C30_NoDeadlockLocksInOrder ==
    /\ []NoWaitForEver
    /\ [][LocksTakenInOrder]_vars

\* UpdateConfig holds the manager's and the logger's lock and waits for the
\* worker, which is writing to the file under the FileWriter's lock, while
\* the other goroutine waits for the logger's lock.
C30_Witness ==
    \E t, u \in LockThreads :
        /\ dlPc[t] = "join"
        /\ HoldsManager(t)
        /\ HoldsLogger(t)
        /\ dlWorker = "drainWrite"
        /\ dlFile = TheWorker
        /\ dlPc[u] = "haveLogger"

\* ----------------------------------------------------- the global manager
\* the configurations handed to InitializeLogger and UpdateLoggerConfig;
\* "nil" stands for a nil *LogConfig
GlobalConfigs == {"default", "custom"}

\* the functions that obtain the manager through GetLoggerManager
ManagerUsers == {"GetLoggerManager", "UnifiedLogger", "MediaLogger", "LogError", "LogSystem"}

NoGlobalCall == [op |-> "none", created |-> FALSE, afterClose |-> FALSE]

GLInit ==
    /\ globalLoggerManager = 0
    /\ glManagers = <<>>
    /\ glClosed = FALSE
    /\ glLast = NoGlobalCall

\* logger.NewLoggerManager(config), assigned to globalLoggerManager
AssignNewManager(config, madeBy) ==
    /\ glManagers' = Append(glManagers,
           [config |-> IF config = "nil" THEN "default" ELSE config,
            closed |-> FALSE, madeBy |-> madeBy])
    /\ globalLoggerManager' = Len(glManagers) + 1

\* InitializeLogger(config)
InitializeLogger ==
    /\ Len(glManagers) < MaxManagers
    /\ \E config \in GlobalConfigs \cup {"nil"} : AssignNewManager(config, "InitializeLogger")
    /\ glClosed' = FALSE
    /\ glLast' = [op |-> "InitializeLogger", created |-> TRUE, afterClose |-> glClosed]
    /\ UNCHANGED glOthers

\* GetLoggerManager: globalLoggerManager == nil
GetCreatesManager == globalLoggerManager = 0

\* GetLoggerManager, called directly or by a middleware or helper
GetLoggerManager ==
    /\ \E user \in ManagerUsers :
        glLast' = [op |-> user, created |-> GetCreatesManager, afterClose |-> glClosed]
    /\ IF GetCreatesManager
       THEN /\ Len(glManagers) < MaxManagers
            /\ AssignNewManager("nil", "GetLoggerManager")
       ELSE UNCHANGED <<globalLoggerManager, glManagers>>
    /\ UNCHANGED glClosed
    /\ UNCHANGED glOthers

\* UpdateLoggerConfig(config)
UpdateLoggerConfig ==
    /\ \E config \in GlobalConfigs :
        IF globalLoggerManager # 0
        THEN /\ glManagers' = [glManagers EXCEPT ![globalLoggerManager].config = config,
                                                 ![globalLoggerManager].closed = FALSE]
             /\ UNCHANGED globalLoggerManager
             /\ glLast' = [op |-> "UpdateLoggerConfig", created |-> FALSE,
                           afterClose |-> glClosed]
        ELSE /\ Len(glManagers) < MaxManagers
             /\ AssignNewManager(config, "InitializeLogger")
             /\ glLast' = [op |-> "UpdateLoggerConfig", created |-> TRUE,
                           afterClose |-> glClosed]
    /\ glClosed' = FALSE
    /\ UNCHANGED glOthers

\* CloseLogger
CloseLogger ==
    /\ globalLoggerManager # 0
    /\ glManagers' = [glManagers EXCEPT ![globalLoggerManager].closed = TRUE]
    /\ globalLoggerManager' = 0
    /\ glClosed' = TRUE
    /\ glLast' = [op |-> "CloseLogger", created |-> FALSE, afterClose |-> glClosed]
    /\ UNCHANGED glOthers

GLNext ==
    \/ InitializeLogger
    \/ GetLoggerManager
    \/ UpdateLoggerConfig
    \/ CloseLogger

\* ---- claims about the global manager

\* C18: once CloseLogger has run, GetLoggerManager and the helpers and
\* middlewares that call it create no manager until InitializeLogger or
\* UpdateLoggerConfig is called.
C18_NoLazyCreationAfterClose ==
    glLast.op \in ManagerUsers /\ glLast.afterClose => ~glLast.created

\* --------------------------- the global manager called from several goroutines
\* globalLoggerManager is a package variable read and written without a
\* lock: each read and each write of it is a step of its own.

GlobalCallers == 1..MaxGlobalCallers

GCInit ==
    /\ gcGlobal = 0
    /\ gcManagers = <<>>
    /\ gcPc = [t \in GlobalCallers |-> "idle"]
    /\ gcOp = [t \in GlobalCallers |-> "none"]
    /\ gcMade = [t \in GlobalCallers |-> 0]
    /\ gcGot = [t \in GlobalCallers |-> 0]
    /\ gcFirstUse = [t \in GlobalCallers |-> FALSE]
    /\ gcPanicked = FALSE

\* GetLoggerManager, UpdateLoggerConfig, CloseLogger: the test of
\* globalLoggerManager against nil that each begins with
GCTestNil(t) ==
    /\ ~gcPanicked
    /\ gcPc[t] = "idle"
    /\ \E op \in {"GetLoggerManager", "UpdateLoggerConfig", "CloseLogger"} :
        /\ gcOp' = [gcOp EXCEPT ![t] = op]
        /\ gcPc' = [gcPc EXCEPT ![t] =
              CASE op = "GetLoggerManager" -> IF gcGlobal = 0 THEN "create" ELSE "return"
                [] op = "UpdateLoggerConfig" -> IF gcGlobal = 0 THEN "create" ELSE "update"
                [] op = "CloseLogger" -> IF gcGlobal = 0 THEN "idle" ELSE "close"]
        /\ gcFirstUse' = [gcFirstUse EXCEPT ![t] = op = "GetLoggerManager" /\ gcGlobal = 0]
    /\ gcGot' = [gcGot EXCEPT ![t] = 0]
    /\ UNCHANGED <<gcGlobal, gcManagers, gcMade, gcPanicked>>
    /\ UNCHANGED gcOthers

\* InitializeLogger called directly
GCInitializeLogger(t) ==
    /\ ~gcPanicked
    /\ gcPc[t] = "idle"
    /\ gcOp' = [gcOp EXCEPT ![t] = "InitializeLogger"]
    /\ gcPc' = [gcPc EXCEPT ![t] = "create"]
    /\ gcGot' = [gcGot EXCEPT ![t] = 0]
    /\ gcFirstUse' = [gcFirstUse EXCEPT ![t] = FALSE]
    /\ UNCHANGED <<gcGlobal, gcManagers, gcMade, gcPanicked>>
    /\ UNCHANGED gcOthers

\* InitializeLogger: logger.NewLoggerManager(config)
GCNewLoggerManager(t) ==
    /\ ~gcPanicked
    /\ gcPc[t] = "create"
    /\ Len(gcManagers) < MaxManagers
    /\ gcManagers' = Append(gcManagers, 0)
    /\ gcMade' = [gcMade EXCEPT ![t] = Len(gcManagers) + 1]
    /\ gcPc' = [gcPc EXCEPT ![t] = "assign"]
    /\ UNCHANGED <<gcGlobal, gcOp, gcGot, gcFirstUse, gcPanicked>>
    /\ UNCHANGED gcOthers

\* InitializeLogger: globalLoggerManager = (the new manager)
GCAssign(t) ==
    /\ ~gcPanicked
    /\ gcPc[t] = "assign"
    /\ gcGlobal' = gcMade[t]
    /\ gcMade' = [gcMade EXCEPT ![t] = 0]
    /\ gcPc' = [gcPc EXCEPT ![t] = IF gcOp[t] = "GetLoggerManager" THEN "return" ELSE "idle"]
    /\ UNCHANGED <<gcManagers, gcOp, gcGot, gcFirstUse, gcPanicked>>
    /\ UNCHANGED gcOthers

\* GetLoggerManager: return globalLoggerManager
GCReturn(t) ==
    /\ ~gcPanicked
    /\ gcPc[t] = "return"
    /\ gcGot' = [gcGot EXCEPT ![t] = gcGlobal]
    /\ gcPc' = [gcPc EXCEPT ![t] = "idle"]
    /\ UNCHANGED <<gcGlobal, gcManagers, gcOp, gcMade, gcFirstUse, gcPanicked>>
    /\ UNCHANGED gcOthers

\* UpdateLoggerConfig: globalLoggerManager.UpdateConfig(config), which
\* rebuilds the manager's loggers; on a nil manager it panics
GCUpdateConfig(t) ==
    /\ ~gcPanicked
    /\ gcPc[t] = "update"
    /\ IF gcGlobal = 0
       THEN gcPanicked' = TRUE /\ UNCHANGED gcManagers
       ELSE gcManagers' = [gcManagers EXCEPT ![gcGlobal] = 0] /\ UNCHANGED gcPanicked
    /\ gcPc' = [gcPc EXCEPT ![t] = "idle"]
    /\ UNCHANGED <<gcGlobal, gcOp, gcMade, gcGot, gcFirstUse>>
    /\ UNCHANGED gcOthers

\* CloseLogger: globalLoggerManager.Close(); on a nil manager it panics
GCManagerClose(t) ==
    /\ ~gcPanicked
    /\ gcPc[t] = "close"
    /\ IF gcGlobal = 0
       THEN gcPanicked' = TRUE /\ UNCHANGED gcManagers
       ELSE gcManagers' = [gcManagers EXCEPT ![gcGlobal] = @ + 1] /\ UNCHANGED gcPanicked
    /\ gcPc' = [gcPc EXCEPT ![t] = "setNil"]
    /\ UNCHANGED <<gcGlobal, gcOp, gcMade, gcGot, gcFirstUse>>
    /\ UNCHANGED gcOthers

\* CloseLogger: globalLoggerManager = nil
GCSetNil(t) ==
    /\ ~gcPanicked
    /\ gcPc[t] = "setNil"
    /\ gcGlobal' = 0
    /\ gcPc' = [gcPc EXCEPT ![t] = "idle"]
    /\ UNCHANGED <<gcManagers, gcOp, gcMade, gcGot, gcFirstUse, gcPanicked>>
    /\ UNCHANGED gcOthers

GCNext ==
    \E t \in GlobalCallers :
        \/ GCTestNil(t)
        \/ GCInitializeLogger(t)
        \/ GCNewLoggerManager(t)
        \/ GCAssign(t)
        \/ GCReturn(t)
        \/ GCUpdateConfig(t)
        \/ GCManagerClose(t)
        \/ GCSetNil(t)

\* ---- claims about the global manager under concurrency

\* The managers that hold open writers: created and not closed.
LiveManagers == {i \in 1..Len(gcManagers) : gcManagers[i] = 0}

\* C29: at most one manager is live at a time; a live manager is the one
\* globalLoggerManager refers to (none was dropped without being closed);
\* as long as no manager has been closed, the callers of GetLoggerManager
\* that found no manager have been returned the same instance.
C29_SingleLiveManager ==
    /\ Cardinality(LiveManagers) <= 1
    /\ \A i \in LiveManagers : gcGlobal = i \/ \E t \in GlobalCallers : gcMade[t] = i
    /\ \A t, u \in GlobalCallers :
          (gcFirstUse[t] /\ gcFirstUse[u] /\ gcGot[t] # 0 /\ gcGot[u] # 0
              /\ LiveManagers = 1..Len(gcManagers))
          => gcGot[t] = gcGot[u]

\* ---------------------------------------------------------- JSONFormatter
\* the fields of a LogEntry
EntryFields ==
    {"Timestamp", "Level", "Type", "IP", "UserAgent", "Method", "Path", "StatusCode",
     "ResponseTime", "Username", "FileSize", "Referrer", "Message", "Extra"}

\* a time.Time: its date and time of day to the second, and the digits of its
\* fraction of a second (none: a whole second)
ZeroTime == [seconds |-> <<"0", "0", "0", "1", "-", "0", "1", "-", "0", "1", "T", "0", "0", ":", "0", "0", ":", "0", "0">>, fraction |-> <<>>]

WholeSecond == [seconds |-> <<"2", "0", "2", "6", "-", "0", "1", "-", "0", "2", "T", "1", "5", ":", "0", "4", ":", "0", "5">>, fraction |-> <<>>]

MidSecond == [seconds |-> <<"2", "0", "2", "6", "-", "0", "1", "-", "0", "2", "T", "1", "5", ":", "0", "4", ":", "0", "5">>, fraction |-> <<"2", "5">>]

\* LevelInfo
LevelInfo == 1

\* the zero value of each field
ZeroValue(field) ==
    CASE field = "Timestamp" -> ZeroTime
      [] field \in {"Level", "StatusCode", "ResponseTime", "FileSize"} -> 0
      [] OTHER -> <<>>

\* a value other than the zero value for each field but Timestamp; Extra is
\* given by the text of the map
SetValue(field) ==
    CASE field = "Level" -> LevelInfo
      [] field = "Type" -> <<"a", "c", "c", "e", "s", "s">>
      [] field = "IP" -> <<"1", "0", ".", "0", ".", "0", ".", "7">>
      [] field = "UserAgent" -> <<"c", "u", "r", "l">>
      [] field = "Method" -> <<"G", "E", "T">>
      [] field = "Path" -> <<"/", "d", "/", "a", ".", "j", "p", "g">>
      [] field = "StatusCode" -> 200
      [] field = "ResponseTime" -> 15
      [] field = "Username" -> <<"b", "o", "b">>
      [] field = "FileSize" -> 1024
      [] field = "Referrer" -> <<"r", "e", "f">>
      [] field = "Message" -> <<"o", "k">>
      [] field = "Extra" -> <<"{", "\"", "k", "\"", ":", "\"", "v", "\"", "}">>

\* the entry whose fields in set are set, its Timestamp to ts, the others zero
Entry(set, ts) ==
    [field \in EntryFields |->
        IF field \notin set THEN ZeroValue(field)
        ELSE IF field = "Timestamp" THEN ts
        ELSE SetValue(field)]

\* the entries formatted: at most MaxSetFields fields set, or all of them
Entries ==
    {Entry(set, ts) : set \in {s \in SUBSET EntryFields :
                                  Cardinality(s) <= MaxSetFields \/ s = EntryFields},
                      ts \in {WholeSecond, MidSecond}}

DigitChars == <<"0", "1", "2", "3", "4", "5", "6", "7", "8", "9">>

\* the verb %d of fmt.Sprintf, for n >= 0
RECURSIVE FormatInt(_)
FormatInt(n) ==
    IF n < 10 THEN <<DigitChars[n + 1]>>
    ELSE FormatInt(n \div 10) \o <<DigitChars[(n % 10) + 1]>>

\* Timestamp.Format(time.RFC3339), in UTC: the layout has no fraction
FormatRFC3339(t) == t.seconds \o <<"Z">>

\* (mutant) the line has no username
FormatWithoutUsername(entry) ==
    <<"{", "\"", "t", "i", "m", "e", "s", "t", "a", "m", "p", "\"", ":", "\"">> \o FormatRFC3339(entry.Timestamp)
    \o <<"\"", ",", "\"", "t", "y", "p", "e", "\"", ":", "\"">> \o entry.Type
    \o <<"\"", ",", "\"", "i", "p", "\"", ":", "\"">> \o entry.IP
    \o <<"\"", ",", "\"", "m", "e", "t", "h", "o", "d", "\"", ":", "\"">> \o entry.Method
    \o <<"\"", ",", "\"", "p", "a", "t", "h", "\"", ":", "\"">> \o entry.Path
    \o <<"\"", ",", "\"", "s", "t", "a", "t", "u", "s", "_", "c", "o", "d", "e", "\"", ":">> \o FormatInt(entry.StatusCode)
    \o <<",", "\"", "r", "e", "s", "p", "o", "n", "s", "e", "_", "t", "i", "m", "e", "\"", ":">> \o FormatInt(entry.ResponseTime)
    \o <<",", "\"", "m", "e", "s", "s", "a", "g", "e", "\"", ":", "\"">> \o entry.Message
    \o <<"\"", "}">> \o <<"\n">>

\* JSONFormatter.Format
Format(entry) ==
    <<"{", "\"", "t", "i", "m", "e", "s", "t", "a", "m", "p", "\"", ":", "\"">> \o FormatRFC3339(entry.Timestamp)
    \o <<"\"", ",", "\"", "t", "y", "p", "e", "\"", ":", "\"">> \o entry.Type
    \o <<"\"", ",", "\"", "i", "p", "\"", ":", "\"">> \o entry.IP
    \o <<"\"", ",", "\"", "m", "e", "t", "h", "o", "d", "\"", ":", "\"">> \o entry.Method
    \o <<"\"", ",", "\"", "p", "a", "t", "h", "\"", ":", "\"">> \o entry.Path
    \o <<"\"", ",", "\"", "s", "t", "a", "t", "u", "s", "_", "c", "o", "d", "e", "\"", ":">> \o FormatInt(entry.StatusCode)
    \o <<",", "\"", "r", "e", "s", "p", "o", "n", "s", "e", "_", "t", "i", "m", "e", "\"", ":">> \o FormatInt(entry.ResponseTime)
    \o <<",", "\"", "u", "s", "e", "r", "n", "a", "m", "e", "\"", ":", "\"">> \o entry.Username
    \o <<"\"", ",", "\"", "m", "e", "s", "s", "a", "g", "e", "\"", ":", "\"">> \o entry.Message
    \o <<"\"", "}">> \o <<"\n">>

\* an entry not yet formatted
Unformatted(entry) ==
    /\ jfEntry = entry
    /\ jfCalled = FALSE
    /\ jfLine = <<>>

JFInit == \E entry \in Entries : Unformatted(entry)

JFFixed == Unformatted(Entry({}, ZeroTime))

\* the call of JSONFormatter.Format(entry)
JSONFormat ==
    /\ ~jfCalled
    /\ jfCalled' = TRUE
    /\ jfLine' = Format(jfEntry)
    /\ UNCHANGED jfEntry
    /\ UNCHANGED jfOthers

JFNext == JSONFormat

\* ---- claims about JSONFormatter

\* the field is set: it differs from the zero value of its type
IsSet(entry, field) == entry[field] # ZeroValue(field)

\* the key each field has in a structured record
KeyOf(field) ==
    CASE field = "Timestamp" -> <<"t", "i", "m", "e", "s", "t", "a", "m", "p">>
      [] field = "Level" -> <<"l", "e", "v", "e", "l">>
      [] field = "Type" -> <<"t", "y", "p", "e">>
      [] field = "IP" -> <<"i", "p">>
      [] field = "UserAgent" -> <<"u", "s", "e", "r", "_", "a", "g", "e", "n", "t">>
      [] field = "Method" -> <<"m", "e", "t", "h", "o", "d">>
      [] field = "Path" -> <<"p", "a", "t", "h">>
      [] field = "StatusCode" -> <<"s", "t", "a", "t", "u", "s", "_", "c", "o", "d", "e">>
      [] field = "ResponseTime" -> <<"r", "e", "s", "p", "o", "n", "s", "e", "_", "t", "i", "m", "e">>
      [] field = "Username" -> <<"u", "s", "e", "r", "n", "a", "m", "e">>
      [] field = "FileSize" -> <<"f", "i", "l", "e", "_", "s", "i", "z", "e">>
      [] field = "Referrer" -> <<"r", "e", "f", "e", "r", "r", "e", "r">>
      [] field = "Message" -> <<"m", "e", "s", "s", "a", "g", "e">>
      [] field = "Extra" -> <<"e", "x", "t", "r", "a">>

Quoted(text) == <<"\"">> \o text \o <<"\"">>

\* the instant in full: the fraction of a second is part of it
FullTimestamp(t) ==
    t.seconds \o (IF t.fraction = <<>> THEN <<>> ELSE <<".">> \o t.fraction) \o <<"Z">>

\* the decimal numeral of the numbers the entries hold
Numeral(n) ==
    CASE n = 0 -> <<"0">>
      [] n = 1 -> <<"1">>
      [] n = 15 -> <<"1", "5">>
      [] n = 200 -> <<"2", "0", "0">>
      [] n = 1024 -> <<"1", "0", "2", "4">>

\* the text that stands for the value of the field in a record
ValueText(field, value) ==
    CASE field = "Timestamp" -> Quoted(FullTimestamp(value))
      [] field = "Extra" -> value
      [] field \in {"Level", "StatusCode", "ResponseTime", "FileSize"} -> Numeral(value)
      [] OTHER -> Quoted(value)

\* the line holds the field with the given text for its value
Holds(line, field, text) ==
    \E end \in {<<",">>, <<"}">>} :
        Contains(line, Quoted(KeyOf(field)) \o <<":">> \o text \o end)

\* the field appears in the line with the value it has on the entry
Appears(line, entry, field) == Holds(line, field, ValueText(field, entry[field]))

\* the fields the line carries
RenderedFields ==
    {"Timestamp", "Type", "IP", "Method", "Path", "StatusCode", "ResponseTime",
     "Username", "Message"}

\* C20 as stated: every field set on the entry, of all fourteen, appears with
\* the same value in the line Format renders.
C20_EverySetFieldAppears ==
    jfCalled => \A field \in EntryFields :
        IsSet(jfEntry, field) => Appears(jfLine, jfEntry, field)

\* C20 amended: the line carries type, ip, method, path, statusCode,
\* responseTime, username and message with the value they have on the entry,
\* and the timestamp cut to the whole second; level, userAgent, fileSize,
\* referrer and extra are not in the line.
C20_RenderedFieldsAppear ==
    jfCalled =>
        /\ \A field \in RenderedFields \ {"Timestamp"} : Appears(jfLine, jfEntry, field)
        /\ Holds(jfLine, "Timestamp", Quoted(jfEntry.Timestamp.seconds \o <<"Z">>))
        /\ jfEntry.Timestamp.fraction # <<>> => ~Appears(jfLine, jfEntry, "Timestamp")
        /\ \A field \in EntryFields \ RenderedFields :
            ~Contains(jfLine, Quoted(KeyOf(field)) \o <<":">>)

C20_Witness ==
    /\ jfCalled
    /\ \A field \in EntryFields : IsSet(jfEntry, field)
    /\ jfEntry.Timestamp = MidSecond
    /\ Appears(jfLine, jfEntry, "Username")

\* ------------------------------------------- TextFormatter.formatFileSize
\* An int64 byte count is kept as its base-1024 digits, most significant
\* first and without leading zero (<<0>> is 0, <<1, 0>> is 1024, <<1, 0, 0,
\* 0, 0, 0>> is 1024^5): bytes / unit drops the last digit and bytes < unit
\* says there is one digit.

\* const unit = 1024
unit == 1024

\* units := []string{"KB", "MB", "GB", "TB"}
units == <<"KB", "MB", "GB", "TB">>

\* The leading digits and the digit behind them that the byte counts are
\* drawn with; all lower digits are 0.
LeadingDigits == {1, 512, 1023}

SecondDigits == {0, 1, 256, 512, 768, 1023}

Zeros(n) == [i \in 1..n |-> 0]

\* Byte counts below 2^63 = 8 * 1024^6.
ByteCounts ==
    {<<d>> : d \in {0} \cup LeadingDigits}
    \cup {<<a, b>> \o Zeros(n - 2) :
            a \in LeadingDigits, b \in SecondDigits, n \in 2..MaxSizeDigits}
    \cup {<<a, b>> \o Zeros(5) : a \in {1, 7}, b \in SecondDigits}

DropLast(q) == SubSeq(q, 1, Len(q) - 1)

RECURSIVE Whole(_)
\* The integer a digit sequence stands for.
Whole(q) == IF q = <<>> THEN 0 ELSE Whole(DropLast(q)) * unit + q[Len(q)]

\* fmt.Sprintf("%.1f", bytes / unit^power) for a byte count whose digits
\* below the first one of the fraction are 0: the integer part and the
\* tenths, rounded to nearest, a tie to the even tenth
OneDecimal(bytes, power) ==
    LET n == Len(bytes)
        int == IF power >= n THEN 0 ELSE Whole(SubSeq(bytes, 1, n - power))
        frac == IF power = 0 \/ power > n THEN 0 ELSE bytes[n - power + 1]
        low == (frac * 10) \div unit
        rem == (frac * 10) % unit
        tenths == IF rem * 2 > unit \/ (rem * 2 = unit /\ low % 2 = 1)
                  THEN low + 1 ELSE low
    IN  IF tenths = 10 THEN [int |-> int + 1, tenths |-> 0]
        ELSE [int |-> int, tenths |-> tenths]

RECURSIVE SizeLoop(_, _, _)
\* for n := bytes / unit; n >= unit; n /= unit { div *= unit; exp++ }
\* with div kept as the power of unit it is
SizeLoop(n, div, exp) ==
    IF Len(n) >= 2 THEN SizeLoop(DropLast(n), div + 1, exp + 1)
    ELSE [div |-> div, exp |-> exp]

\* the text "%d B" or "%.1f %s": its number and its unit
SizeText(int, tenths, u) == [int |-> int, tenths |-> tenths, unit |-> u]

NoTenths == -1

\* formatFileSize(bytes)
formatFileSize(bytes) ==
    IF Len(bytes) = 1 THEN SizeText(bytes[1], NoTenths, "B")
    ELSE LET loop == SizeLoop(DropLast(bytes), 1, 0)
             exp == IF loop.exp >= Len(units) THEN Len(units) - 1 ELSE loop.exp
             number == OneDecimal(bytes, loop.div)
         IN  SizeText(number.int, number.tenths, units[exp + 1])

NotFormatted == [called |-> FALSE, text |-> SizeText(0, NoTenths, "")]

SZInit ==
    /\ szBytes \in ByteCounts
    /\ szOut = NotFormatted

SZFixed ==
    /\ szBytes = <<0>>
    /\ szOut = NotFormatted

FormatFileSize ==
    /\ ~szOut.called
    /\ szOut' = [called |-> TRUE, text |-> formatFileSize(szBytes)]
    /\ UNCHANGED szBytes
    /\ UNCHANGED szOthers

SZNext == FormatFileSize

\* ---- claims about formatFileSize

\* The unit the text should carry: the k-th of KB, MB, GB, TB for a byte
\* count of k + 2 digits, TB for any longer one.
UnitIndex(bytes) == IF Len(bytes) - 1 > Len(units) THEN Len(units) ELSE Len(bytes) - 1

\* C26: a byte count below 1024 is rendered as itself in B; any other as
\* bytes / 1024^(k+1) with one decimal, where the unit printed is the k-th of
\* KB, MB, GB, TB (counted from 0), TB at most: the number is never the byte
\* count divided by a larger power than the unit printed stands for.
C26_RenderedValueMatchesUnit ==
    szOut.called =>
        IF Len(szBytes) = 1
        THEN szOut.text = SizeText(szBytes[1], NoTenths, "B")
        ELSE LET number == OneDecimal(szBytes, UnitIndex(szBytes))
             IN  szOut.text = SizeText(number.int, number.tenths,
                                       units[UnitIndex(szBytes)])

\* ---------------------------------------------------------- specifications

Init == AWInit /\ FWInit /\ RFInit /\ MWInit /\ CFInit /\ MFInit /\ PFInit
    /\ LGInit /\ MGInit /\ GLInit /\ JFInit /\ FCInit /\ SZInit
    /\ ALInit /\ GCInit /\ DLInit

Next == AWNext \/ FWNext \/ RFNext \/ MWNext \/ CFNext \/ MFNext \/ PFNext
    \/ LGNext \/ MGNext \/ GLNext \/ JFNext \/ FCNext \/ SZNext
    \/ ALNext \/ GCNext \/ DLNext

Spec == Init /\ [][Next]_vars

InitAsync == AWInit /\ FWFixed /\ RFFixed /\ MWFixed /\ CFFixed /\ MFFixed
    /\ PFFixed /\ LGInit /\ MGFixed /\ GLInit /\ JFFixed /\ FCFixed
    /\ SZFixed /\ ALFixed /\ GCInit /\ DLFixed

SpecAsync == InitAsync /\ [][AWNext]_vars

InitFile == FWInit /\ AWFixed /\ RFFixed /\ MWFixed /\ CFFixed /\ MFFixed
    /\ PFFixed /\ LGInit /\ MGFixed /\ GLInit /\ JFFixed /\ FCFixed
    /\ SZFixed /\ ALFixed /\ GCInit /\ DLFixed

SpecFile == InitFile /\ [][FWNext]_vars

InitRotating == RFInit /\ AWFixed /\ FWFixed /\ MWFixed /\ CFFixed
    /\ MFFixed /\ PFFixed /\ LGInit /\ MGFixed /\ GLInit
    /\ JFFixed /\ FCFixed /\ SZFixed /\ ALFixed /\ GCInit
    /\ DLFixed

SpecRotating == InitRotating /\ [][RFNext]_vars

InitMulti == MWInit /\ AWFixed /\ FWFixed /\ RFFixed /\ CFFixed /\ MFFixed
    /\ PFFixed /\ LGInit /\ MGFixed /\ GLInit /\ JFFixed /\ FCFixed
    /\ SZFixed /\ ALFixed /\ GCInit /\ DLFixed

SpecMulti == InitMulti /\ [][MWNext]_vars

InitFilter == CFInit /\ AWFixed /\ FWFixed /\ RFFixed /\ MWFixed /\ MFFixed
    /\ PFFixed /\ LGInit /\ MGFixed /\ GLInit /\ JFFixed
    /\ FCFixed /\ SZFixed /\ ALFixed /\ GCInit /\ DLFixed

SpecFilter == InitFilter /\ [][CFNext]_vars

InitMedia == MFInit /\ AWFixed /\ FWFixed /\ RFFixed /\ MWFixed /\ CFFixed
    /\ PFFixed /\ LGInit /\ MGFixed /\ GLInit /\ JFFixed /\ FCFixed
    /\ SZFixed /\ ALFixed /\ GCInit /\ DLFixed

SpecMedia == InitMedia /\ [][MFNext]_vars

InitPath == PFInit /\ AWFixed /\ FWFixed /\ RFFixed /\ MWFixed /\ CFFixed
    /\ MFFixed /\ LGInit /\ MGFixed /\ GLInit /\ JFFixed /\ FCFixed
    /\ SZFixed /\ ALFixed /\ GCInit /\ DLFixed

SpecPath == InitPath /\ [][PFNext]_vars

InitLogger == LGInit /\ AWFixed /\ FWFixed /\ RFFixed /\ MWFixed /\ CFFixed
    /\ MFFixed /\ PFFixed /\ MGFixed /\ GLInit /\ JFFixed
    /\ FCFixed /\ SZFixed /\ ALFixed /\ GCInit /\ DLFixed

SpecLogger == InitLogger /\ [][LGNext]_vars

InitManager == MGInit /\ AWFixed /\ FWFixed /\ RFFixed /\ MWFixed /\ CFFixed
    /\ MFFixed /\ PFFixed /\ LGInit /\ GLInit /\ JFFixed
    /\ FCFixed /\ SZFixed /\ ALFixed /\ GCInit /\ DLFixed

SpecManager == InitManager /\ [][MGNext]_vars

InitGlobal == GLInit /\ AWFixed /\ FWFixed /\ RFFixed /\ MWFixed /\ CFFixed
    /\ MFFixed /\ PFFixed /\ LGInit /\ MGFixed /\ JFFixed
    /\ FCFixed /\ SZFixed /\ ALFixed /\ GCInit /\ DLFixed

SpecGlobal == InitGlobal /\ [][GLNext]_vars

InitJSON == JFInit /\ AWFixed /\ FWFixed /\ RFFixed /\ MWFixed /\ CFFixed
    /\ MFFixed /\ PFFixed /\ LGInit /\ MGFixed /\ GLInit /\ FCFixed
    /\ SZFixed /\ ALFixed /\ GCInit /\ DLFixed

SpecJSON == InitJSON /\ [][JFNext]_vars

InitFileLocked == FCInit /\ AWFixed /\ FWFixed /\ RFFixed /\ MWFixed
    /\ CFFixed /\ MFFixed /\ PFFixed /\ LGInit /\ MGFixed
    /\ GLInit /\ JFFixed /\ SZFixed /\ ALFixed /\ GCInit
    /\ DLFixed

SpecFileLocked == InitFileLocked /\ [][FCNext]_vars

InitSize == SZInit /\ AWFixed /\ FWFixed /\ RFFixed /\ MWFixed /\ CFFixed
    /\ MFFixed /\ PFFixed /\ LGInit /\ MGFixed /\ GLInit /\ JFFixed
    /\ FCFixed /\ ALFixed /\ GCInit /\ DLFixed

SpecSize == InitSize /\ [][SZNext]_vars

InitAsyncLoad == ALInit /\ AWFixed /\ FWFixed /\ RFFixed /\ MWFixed
    /\ CFFixed /\ MFFixed /\ PFFixed /\ LGInit /\ MGFixed
    /\ GLInit /\ JFFixed /\ FCFixed /\ SZFixed /\ GCInit
    /\ DLFixed

SpecAsyncLoad == InitAsyncLoad /\ [][ALNext]_vars

InitGlobalShared == GCInit /\ AWFixed /\ FWFixed /\ RFFixed /\ MWFixed
    /\ CFFixed /\ MFFixed /\ PFFixed /\ LGInit /\ MGFixed
    /\ GLInit /\ JFFixed /\ FCFixed /\ SZFixed /\ ALFixed
    /\ DLFixed

SpecGlobalShared == InitGlobalShared /\ [][GCNext]_vars

InitLocks == DLInit /\ AWFixed /\ FWFixed /\ RFFixed /\ MWFixed /\ CFFixed
    /\ MFFixed /\ PFFixed /\ LGInit /\ MGFixed /\ GLInit /\ JFFixed
    /\ FCFixed /\ SZFixed /\ ALFixed /\ GCInit

SpecLocks == InitLocks /\ [][DLNext]_vars

\* The goroutines of the RotatingFileWriter are scheduled fairly: a writer
\* that can take its next step and a started cleanOldFiles goroutine
\* eventually run. The calendar and the callers' decision to write are free.
FairRotating ==
    /\ WF_vars(CleanOldFiles)
    /\ \A t \in Writers : WF_vars(RFOpenTodayFile(t)) /\ WF_vars(RFAppend(t))

SpecRotatingFair == InitRotating /\ [][RFNext]_vars /\ FairRotating

\* The worker and the caller of Close are scheduled fairly and the inner
\* Write returns: each takes its next step when it can.  The select of the
\* outer loop chooses at random among its ready cases, so the shutdown case,
\* ready each time the worker comes back to the select, is taken in the end.
\* The producers are free to write or not.
FairAsyncLoad ==
    /\ WF_vars(ALWorkerRecv)
    /\ WF_vars(ALWorkerWrite)
    /\ SF_vars(ALWorkerDone)
    /\ WF_vars(ALWorkerDrainRecv)
    /\ WF_vars(ALWorkerDrainWrite)
    /\ SF_vars(ALWorkerExit)
    /\ WF_vars(ALCloseJoin)

SpecAsyncLoadFair == InitAsyncLoad /\ [][ALNext]_vars /\ FairAsyncLoad

====
